---- MODULE Spec2Model ----
(***************************************************************************)
(* Frame-based image transmission over TCP: the transmitter's chunk        *)
(* splitter (Transmitter.py), the receiver's per-connection handler with   *)
(* its grid reconstruction, and the live-feed slot table (Receiver.py).    *)
(*                                                                         *)
(* Bytes are integers 0..255, byte strings are sequences of bytes.  A      *)
(* frame on the wire is the byte string header ++ chunk.  Slot and grid    *)
(* indices are 0-based as in the source.                                   *)
(***************************************************************************)
EXTENDS Integers, Sequences, FiniteSets, TLC

\* ------------------------------------------------------------ constants
\* Transmitter.py:25 header_size, Receiver.py:189 expected_header_size
header_size == 10
\* Receiver.py:64-69: the four entries of live_feed_assignments
NumSlots == 4

\* ------------------------------------------------------------ bounds
\* longest file (encoded image) a transmitter splits
MaxLen == 3
\* largest chunk payload: frame sizes range over header_size+1 .. header_size+MaxChunk
MaxChunk == 2
\* largest column count of the transmitter's grid
MaxCols == 2
\* re-deliveries (a frame for a grid position already filled) per connection
MaxDup == 1
\* connections accepted in one run of the serial feed specification
MaxConn == 6
\* handler threads that can run at the same time
NumSessions == 3
\* accept-loop threads that can exist at the same time
MaxAcceptors == 2
\* connections the accept loop takes in the stop/start specification
MaxAccepts == 2
\* connections the accept loop takes in the fair stop/start specification
MaxLiveAccepts == 1
\* capture-loop threads that can exist at the same time
MaxCapLoops == 2
\* photos the capture loops take
MaxCaptures == 2
\* highest row index an arbitrary peer writes into a frame header
MaxRow == 1
\* most bytes of a failing sendall that still go out
MaxPartial == 1

Sessions == 1..NumSessions
AccIds == 1..MaxAcceptors
CapIds == 1..MaxCapLoops
SlotIdx == 0..(NumSlots - 1)

\* Receiver.py:65 the label of a slot nobody was assigned to
NA == "N/A"

\* sender identities a handshake can carry (the 50-byte name field, stripped)
Ids == {"Tx1", "Tx2", "TxC", "TxD", "TxE", NA}

\* byte values used for file contents; FillByte marks a foreign payload
FileBytes == {0, 1}
FillByte == 9

\* ------------------------------------------------------------ byte strings
Min(a, b) == IF a < b THEN a ELSE b
Max(a, b) == IF a > b THEN a ELSE b

\* Python b[lo:hi] on a byte string (0-based, half open, clamped)
Slice(b, lo, hi) ==
  LET h == Min(hi, Len(b))
  IN  IF lo >= h THEN <<>> ELSE SubSeq(b, lo + 1, h)

\* Python b'\x00' * n
Zeros(n) == [i \in 1..n |-> 0]

\* Python v.to_bytes(2, 'big'), for 0 <= v <= 65535
ToBytes2(v) == <<v \div 256, v % 256>>

\* mutant of Fits2: to_bytes never raises
Fits2Always(v) == TRUE

\* whether v.to_bytes(2, 'big') returns (it raises OverflowError otherwise)
Fits2(v) == v >= 0 /\ v < 65536

\* Python int.from_bytes(b, 'big'); the empty string gives 0
RECURSIVE FromBytes(_)
FromBytes(b) ==
  IF b = <<>> THEN 0
  ELSE FromBytes(SubSeq(b, 1, Len(b) - 1)) * 256 + b[Len(b)]

Range(f) == {f[i] : i \in DOMAIN f}

\* b''.join(parts)
RECURSIVE Join(_)
Join(parts) ==
  IF parts = <<>> THEN <<>> ELSE Head(parts) \o Join(Tail(parts))

\* ------------------------------------------------------------ transmitter
\* Transmitter.py:132 chunk_size
ChunkSize(total_frame_size) == total_frame_size - header_size

\* Transmitter.py:140 total_frames
TotalFrames(file_bytes, chunk_size) ==
  (Len(file_bytes) + chunk_size - 1) \div chunk_size

\* mutant of PadChunk: the last chunk is sent as it is
PadChunkNone(raw_chunk, chunk_size) == raw_chunk

\* Transmitter.py:147-150 the i-th chunk, zero-padded to chunk_size
PadChunk(raw_chunk, chunk_size) == raw_chunk \o Zeros(chunk_size - Len(raw_chunk))

Chunk(file_bytes, chunk_size, i) ==
  PadChunk(Slice(file_bytes, i * chunk_size, (i + 1) * chunk_size), chunk_size)

\* mutant of GridPos: row and column exchanged
GridPosSwapped(i, ncols) == <<i % ncols, i \div ncols>>

\* Transmitter.py:152 row_idx, col_idx
GridPos(i, ncols) == <<i \div ncols, i % ncols>>

\* Transmitter.py:153-159 the 10-byte header
Header(i, row_idx, col_idx, total_frames) ==
  ToBytes2(i) \o ToBytes2(row_idx) \o ToBytes2(col_idx)
    \o ToBytes2(total_frames) \o <<0, 0>>

\* Transmitter.py:146-160 frame_content of frame i
Frame(file_bytes, total_frame_size, ncols, i) ==
  LET chunk_size == ChunkSize(total_frame_size)
      pos == GridPos(i, ncols)
  IN  Header(i, pos[1], pos[2], TotalFrames(file_bytes, chunk_size))
        \o Chunk(file_bytes, chunk_size, i)

\* Transmitter.py:122-169 generate_frames_from_file: ok is FALSE when
\* chunk_size <= 0 (the configuration error, "return None, 0, None");
\* raised is TRUE when total_frames.to_bytes(2, 'big') raises OverflowError
\* while the header of frame 0 is built (Transmitter.py:157), before any
\* frame file is written; otherwise frames holds the written frame files in
\* index order
generate_frames_from_file(file_bytes, total_frame_size, ncols) ==
  LET chunk_size == ChunkSize(total_frame_size)
  IN  IF chunk_size <= 0
      THEN [ok |-> FALSE, raised |-> FALSE, total_frames |-> 0, frames |-> <<>>]
      ELSE IF TotalFrames(file_bytes, chunk_size) > 0
              /\ ~Fits2(TotalFrames(file_bytes, chunk_size))
      THEN [ok |-> FALSE, raised |-> TRUE,
            total_frames |-> TotalFrames(file_bytes, chunk_size),
            frames |-> <<>>]
      ELSE [ok |-> TRUE, raised |-> FALSE,
            total_frames |-> TotalFrames(file_bytes, chunk_size),
            frames |-> [k \in 1..TotalFrames(file_bytes, chunk_size) |->
                          Frame(file_bytes, total_frame_size, ncols, k - 1)]]

\* ------------------------------------------------------------ handshake
\* mutant of Ljust: the field is not padded
LjustNone(b, n) == b

\* Python b.ljust(n, b'\x00'): pads on the right, never truncates
Ljust(b, n) == IF Len(b) >= n THEN b ELSE b \o Zeros(n - Len(b))

\* Python b.strip(b'\x00') of a decoded field: leading and trailing NULs go
RECURSIVE Strip(_)
Strip(b) ==
  IF b = <<>> THEN <<>>
  ELSE IF Head(b) = 0 THEN Strip(Tail(b))
  ELSE IF b[Len(b)] = 0 THEN Strip(SubSeq(b, 1, Len(b) - 1))
  ELSE b

\* Python v.to_bytes(4, 'big'), for 0 <= v < 2^32
ToBytes4(v) ==
  <<(v \div 16777216) % 256, (v \div 65536) % 256, (v \div 256) % 256, v % 256>>

\* Transmitter.py:19 TRANSMITTER_NAME = "TX2", encoded
TRANSMITTER_NAME == <<84, 88, 50>>

\* Transmitter.py:106 / Receiver.py:148 the identity field
name_field == 50
\* Transmitter.py:204 / Receiver.py:170 the filename field
filename_field == 100
\* Transmitter.py:205 / Receiver.py:175 the frame size field
size_field == 4

\* Transmitter.py:96-98 get_unique_image_name: the names of the files the
\* transmitter sends, "TX2_<prefix>_img_<timestamp>.jpg", have 41 bytes
\* (prefix "chosen") or 51 bytes (prefix "auto_live_camera")
FileNameLens == {41, 51}
FileName(n) == [k \in 1..n |-> 102]

\* Receiver.py:148-178, 207: what the handler reads off the byte stream of a
\* connection: the three handshake fields by their fixed lengths, then frames
\* of data_size bytes; rest is everything after the handshake
ReadHandshake(stream) ==
  LET a == name_field
      b == name_field + filename_field
      c == name_field + filename_field + size_field
      data_size == FromBytes(Slice(stream, b, c))
  IN  [transmitter_name |-> Strip(Slice(stream, 0, a)),
       filename |-> Strip(Slice(stream, a, b)),
       data_size |-> data_size,
       first_frame |-> Slice(stream, c, c + data_size),
       rest |-> Slice(stream, c, Len(stream))]

\* ------------------------------------------------------------ receiver: frames
\* mutant of ParseFrame: the row is taken from the frame index
ParseFrameByIndex(full_frame_data) ==
  LET header == Slice(full_frame_data, 0, header_size)
  IN  [frame_idx |-> FromBytes(Slice(header, 0, 2)),
       row_idx |-> FromBytes(Slice(header, 0, 2)),
       col_idx |-> FromBytes(Slice(header, 4, 6)),
       current_total_frames |-> FromBytes(Slice(header, 6, 8)),
       chunk |-> Slice(full_frame_data, header_size, Len(full_frame_data))]

\* Receiver.py:213-219 the fields read from one frame
ParseFrame(full_frame_data) ==
  LET header == Slice(full_frame_data, 0, header_size)
  IN  [frame_idx |-> FromBytes(Slice(header, 0, 2)),
       row_idx |-> FromBytes(Slice(header, 2, 4)),
       col_idx |-> FromBytes(Slice(header, 4, 6)),
       current_total_frames |-> FromBytes(Slice(header, 6, 8)),
       chunk |-> Slice(full_frame_data, header_size, Len(full_frame_data))]

\* mutant of GridPut: chunks are kept in arrival order, in row 0
GridPutArrival(grid, row_idx, col_idx, chunk) ==
  [p \in DOMAIN grid \cup {<<0, Cardinality(DOMAIN grid)>>} |->
     IF p \in DOMAIN grid THEN grid[p] ELSE chunk]

\* Receiver.py:241 frame_grid[(row_idx, col_idx)] = chunk
GridPut(grid, row_idx, col_idx, chunk) ==
  [p \in DOMAIN grid \cup {<<row_idx, col_idx>>} |->
     IF p = <<row_idx, col_idx>> THEN chunk ELSE grid[p]]

\* mutant of ReceivedCount: every frame read is counted
ReceivedCountFrames(grid, frames_read) == frames_read

\* Receiver.py:245 len(frame_grid); frames_read is the number of frames read
ReceivedCount(grid, frames_read) == Cardinality(DOMAIN grid)

\* mutant of CompleteTest: reconstruct whatever was received
CompleteTestLenient(expected, received) == expected > 0

\* Receiver.py:254 the test that starts reconstruction
CompleteTest(expected, received) == expected > 0 /\ received = expected

\* Receiver.py:260-267 one row of the grid, columns 0..max_c
RowChunks(grid, r, max_c) ==
  [k \in 1..(max_c + 1) |->
     IF <<r, k - 1>> \in DOMAIN grid THEN grid[<<r, k - 1>>] ELSE <<>>]

\* mutant of Reconstruct: the grid is read column by column
ReconstructColumns(grid, max_r, max_c) ==
  Join([k \in 1..(max_c + 1) |->
          Join([r \in 1..(max_r + 1) |->
                  IF <<r - 1, k - 1>> \in DOMAIN grid
                  THEN grid[<<r - 1, k - 1>>] ELSE <<>>])])

\* Receiver.py:256-269 combined_bytes
Reconstruct(grid, max_r, max_c) ==
  Join([k \in 1..(max_r + 1) |-> Join(RowChunks(grid, k - 1, max_c))])

\* Receiver.py:261-266 the positions logged as missing during reconstruction
MissingChunks(grid, max_r, max_c) ==
  {p \in (0..max_r) \X (0..max_c) : p \notin DOMAIN grid}

\* ------------------------------------------------------------ receiver: feed slots
\* Receiver.py:605-609 preferred_assignments
preferred_assignments == ("Tx1" :> 0) @@ ("Tx2" :> 1)

\* Receiver.py:633 preferred_assignments.values()
PreferredSlots == {preferred_assignments[n] : n \in DOMAIN preferred_assignments}

\* the first index of a for-loop over the slots that satisfies the test, or -1
FirstSlot(S) == IF S = {} THEN -1 ELSE CHOOSE i \in S : \A j \in S : i <= j

\* Receiver.py:612-617 rule 1: the preferred slot, if 'N/A' or already this name's
Rule1(table, name) ==
  IF name \in DOMAIN preferred_assignments
     /\ table[preferred_assignments[name]].transmitter_name \in {NA, name}
  THEN preferred_assignments[name]
  ELSE -1

\* Receiver.py:621-626 rule 2: the first slot labelled with this name
Rule2(table, name) ==
  FirstSlot({i \in SlotIdx : table[i].transmitter_name = name})

\* mutant of Rule3: preferred slots are not kept free
Rule3NoReserve(table, name) ==
  FirstSlot({i \in SlotIdx : table[i].transmitter_name = NA})

\* Receiver.py:630-636 rule 3: the first 'N/A' slot that is nobody's preferred slot
Rule3(table, name) ==
  FirstSlot({i \in SlotIdx :
               table[i].transmitter_name = NA /\ i \notin PreferredSlots})

\* Receiver.py:641-647 rule 4: the first 'N/A' slot
Rule4(table, name) ==
  FirstSlot({i \in SlotIdx : table[i].transmitter_name = NA})

\* mutant of LastResortSlot: the last slot is overwritten
LastResortLast(table) == NumSlots - 1

\* Receiver.py:650-651 last resort: overwrite slot 0
LastResortSlot(table) == 0

\* Receiver.py:599-652 assigned_to_feed_index after the four rule blocks
AssignedIndex(table, name) ==
  LET r1 == Rule1(table, name)
      r2 == IF r1 = -1 THEN Rule2(table, name) ELSE r1
      r3 == IF r2 = -1 THEN Rule3(table, name) ELSE r2
      r4 == IF r3 = -1 THEN Rule4(table, name) ELSE r3
  IN  IF r4 = -1 THEN LastResortSlot(table) ELSE r4

\* ------------------------------------------------------------ state
VARIABLES
  tx_inputs,   \* which inputs the transmitters send: "any" or "grid"
  conn_seq,    \* connections accepted so far
  sess,        \* per handler thread: its program counter and local variables
  total_frames_received_for_current_image,   \* Receiver.py:58, shared
  received_image_count,                      \* Receiver.py:57, shared
  all_received_images_metadata,              \* Receiver.py:60, shared
  live_feed_assignments,                     \* Receiver.py:64-69, shared
  server,      \* Receiver.py:52-55: the listening side (flag, socket, threads)
  send_task,   \* Transmitter.py:179-247: one run of _send_data_task
  capture      \* Transmitter.py:63-64, 782-824: continuous capture on the sender

vars == <<tx_inputs, conn_seq, sess, total_frames_received_for_current_image,
          received_image_count, all_received_images_metadata,
          live_feed_assignments, server, send_task, capture>>

shared == <<total_frames_received_for_current_image, received_image_count,
            all_received_images_metadata, live_feed_assignments>>

\* Receiver.py:65 last_image_data before any assignment
NoImage == [from |-> "None", conn |-> 0]

NoTx == [file_bytes |-> <<>>, total_frame_size |-> 0, cols |-> 1]

\* the frame files the transmitter wrote for an input (Transmitter.py:165-167)
FrameFiles(input) ==
  generate_frames_from_file(input.file_bytes, input.total_frame_size,
                            input.cols).frames

\* a handler thread that does not run; the locals as set at Receiver.py:183-192
\* (eof: the last _recv_all of the receive loop returned None)
IdleSession ==
  [pc |-> "idle", conn |-> 0, tx |-> NoTx, frame_files |-> <<>>,
   transmitter_name |-> "", data_size |-> 0,
   frame_grid |-> <<>>, max_row |-> -1, max_col |-> -1,
   total_frames_expected |-> -1,
   nread |-> 0, ndup |-> 0, ooo |-> FALSE, foreign |-> FALSE, eof |-> FALSE,
   combined_bytes |-> <<>>, reconstructed |-> FALSE, warnings |-> 0,
   debug_filepath |-> FALSE, nparr |-> NoImage, count_tmp |-> 0, assigned_to_feed_index |-> -1,
   outcome |-> "none"]

\* Receiver.py:64-69
EmptyFeedTable ==
  [i \in SlotIdx |-> [transmitter_name |-> NA, last_image_data |-> NoImage]]

\* the inputs of the general specification
TxInputs ==
  {[file_bytes |-> b, total_frame_size |-> header_size + c, cols |-> n] :
     b \in UNION {[1..l -> FileBytes] : l \in 0..MaxLen},
     c \in 1..MaxChunk, n \in 1..MaxCols}

\* the inputs of the grid specification: 12 chunks of one byte on 4 columns,
\* a grid of 3 rows and 4 columns
GridInputs ==
  {[file_bytes |-> [i \in 1..12 |-> 1], total_frame_size |-> header_size + 1,
    cols |-> 4]}

InputsOf(which) == IF which = "grid" THEN GridInputs ELSE TxInputs

\* an accept-loop thread: where it stands in _accept_connections_task and the
\* handler thread it has started but not yet registered (Receiver.py:128-130)
NoAcceptor == [pc |-> "none", handler |-> 0]

\* Receiver.py:52-55 with 94-109: the listening side once Start Server has run;
\* the accept loop stands in accept() (Receiver.py:126).  accepted counts the
\* connections accept() returned, stopped records that stop_server returned
\* and start_server has not run since.
ServerStarted ==
  [server_running |-> TRUE, server_socket |-> "listening",
   acc |-> [a \in AccIds |-> IF a = 1 THEN [pc |-> "accept", handler |-> 0]
                                     ELSE NoAcceptor],
   stop_pc |-> "idle", active_connections |-> {}, accepted |-> 0,
   stopped |-> FALSE]

\* Transmitter.py:88 the initial value of data_size_var is one of the slider's
\* values; no send task runs.  wire holds the bytes of the sendall calls that
\* returned, partial the bytes a sendall call put out before it raised
IdleSendTask ==
  [pc |-> "idle", data_size_var |-> header_size + 1,
   file_bytes |-> <<>>, cols |-> 1, file_filename |-> <<>>,
   total_frame_size |-> 0, total_frames |-> 0, frames |-> <<>>,
   connected |-> FALSE, wire |-> <<>>, partial |-> <<>>, size_sent |-> 0,
   i |-> 0, outcome |-> "none"]

\* Transmitter.py:48-64: the camera is off, continuous capture is inactive and
\* no capture thread exists.  toggle_pc is where the main thread stands in
\* toggle_continuous_capture, loop where each capture thread stands in
\* _continuous_capture_loop, captured counts the photos taken
IdleCapture ==
  [camera_running |-> FALSE, is_continuous_capture_active |-> FALSE,
   toggle_pc |-> "idle", loop |-> [t \in CapIds |-> "none"], captured |-> 0]

InitWith(which) ==
  /\ tx_inputs = which
  /\ conn_seq = 0
  /\ capture = IdleCapture
  /\ sess = [s \in Sessions |-> IdleSession]
  /\ total_frames_received_for_current_image = 0
  /\ received_image_count = 0
  /\ all_received_images_metadata = <<>>
  /\ live_feed_assignments = EmptyFeedTable
  /\ server = ServerStarted
  /\ send_task = IdleSendTask

Init == InitWith("any")

\* ------------------------------------------------------------ the peer
\* the frames the transmitter of connection s wrote
Produced(s) == sess[s].frame_files

\* a produced frame whose payload was replaced (same header)
Altered(f) ==
  Slice(f, 0, header_size) \o [i \in 1..(Len(f) - header_size) |-> FillByte]

\* a produced frame whose total_frames field is one higher
Retotalled(f) ==
  Slice(f, 0, 6) \o ToBytes2((FromBytes(Slice(f, 6, 8)) + 1) % 65536)
    \o Slice(f, 8, Len(f))

\* the frames with a one-byte payload a peer can write: any frame index, any
\* position, any total, any reserved bytes
PeerIndexes == {0, 7}
PeerReserved == {<<0, 0>>, <<5, 5>>}

SparseFrames ==
  {ToBytes2(i) \o ToBytes2(r) \o ToBytes2(c) \o ToBytes2(n) \o resv \o <<b>> :
     i \in PeerIndexes, r \in 0..MaxRow, c \in 0..MaxCols, n \in 1..MaxCols,
     resv \in PeerReserved, b \in FileBytes}

\* a produced frame with another frame index and other reserved bytes
Reindexed(f, i, resv) ==
  ToBytes2(i) \o Slice(f, 2, 8) \o resv \o Slice(f, header_size, Len(f))

\* the connection of such a peer: nothing is known of a file behind it
SparseInput ==
  [file_bytes |-> <<>>, total_frame_size |-> header_size + 1, cols |-> 1]

\* frames of n bytes, n <= header_size, as a peer that announced such a size sends
RawFrames(n) == {Zeros(n), Slice(<<0, 0, 0, 0, 0, 0, 0, 1, 0, 0>>, 0, n)}

\* what an arbitrary peer may deliver next on connection s
PeerFrames(s) ==
  IF sess[s].data_size = sess[s].tx.total_frame_size
  THEN Range(Produced(s)) \cup {Altered(f) : f \in Range(Produced(s))}
  ELSE RawFrames(sess[s].data_size)

\* the first bytes of a frame, as a peer that closes inside a frame sends
ShortReads(s) ==
  {Slice(f, 0, k) : f \in PeerFrames(s), k \in 1..(sess[s].data_size - 1)}

\* the handshake sizes an arbitrary peer may announce
PeerSizes(s) == {sess[s].tx.total_frame_size} \cup (0..header_size)

\* ------------------------------------------------------------ handler thread
Set(s, r) == sess' = [sess EXCEPT ![s] = r]

\* Receiver.py:128-129, 142-145: a handler thread is started on a connection
HandlerStart(s, input) ==
  /\ sess[s].pc \in {"idle", "done"}
  /\ input \in InputsOf(tx_inputs)
  /\ conn_seq' = conn_seq + 1
  /\ Set(s, [IdleSession EXCEPT !.pc = "recv_name", !.conn = conn_seq + 1,
                                !.tx = input,
                                !.frame_files = FrameFiles(input)])

\* Receiver.py:126-130, 142-145: accept() returns a connection, its handler is
\* started and registered, the accept loop is back in accept()
Accept(s, input) ==
  /\ \E a \in AccIds : server.acc[a].pc = "accept"
  /\ server.server_socket = "listening"
  /\ HandlerStart(s, input)
  /\ server' = [server EXCEPT !.accepted = @ + 1,
                              !.active_connections = @ \cup {conn_seq + 1}]
  /\ UNCHANGED <<capture, tx_inputs, send_task, shared>>

\* Receiver.py:148-152
RecvName(s, id) ==
  /\ sess[s].pc = "recv_name"
  /\ Set(s, [sess[s] EXCEPT !.pc = "recv_filename", !.transmitter_name = id])
  /\ UNCHANGED <<capture, tx_inputs, server, send_task, conn_seq, shared>>

\* Receiver.py:170-173
RecvFilename(s) ==
  /\ sess[s].pc = "recv_filename"
  /\ Set(s, [sess[s] EXCEPT !.pc = "recv_size"])
  /\ UNCHANGED <<capture, tx_inputs, server, send_task, conn_seq, shared>>

\* mutant of HandshakeClosed: one error for every field
HandshakeClosedGeneric(s) ==
  /\ sess[s].pc \in {"recv_name", "recv_filename", "recv_size"}
  /\ Set(s, [sess[s] EXCEPT !.pc = "close", !.outcome = "aborted_size"])
  /\ UNCHANGED <<capture, tx_inputs, server, send_task, conn_seq, shared>>

\* Receiver.py:149, 171, 176 with 340-347: the peer closed inside the handshake
HandshakeClosed(s) ==
  /\ sess[s].pc \in {"recv_name", "recv_filename", "recv_size"}
  /\ Set(s, [sess[s] EXCEPT
               !.pc = "close",
               !.outcome = CASE sess[s].pc = "recv_name" -> "aborted_name"
                             [] sess[s].pc = "recv_filename" -> "aborted_filename"
                             [] OTHER -> "aborted_size"])
  /\ UNCHANGED <<capture, tx_inputs, server, send_task, conn_seq, shared>>

\* Receiver.py:145, 321-322 with 332-337: a read meets the 60-second socket
\* timeout (or the connection is reset, 323-325); the handler goes to its
\* finally block
RecvTimeout(s) ==
  /\ sess[s].pc \in {"recv_name", "recv_filename", "recv_size", "recv_frame"}
  /\ Set(s, [sess[s] EXCEPT !.pc = "close", !.outcome = "socket_error"])
  /\ UNCHANGED <<capture, tx_inputs, server, send_task, conn_seq, shared>>

\* Receiver.py:179 the only validation of the announced size
SizeRejected(n) == n <= 0

\* Receiver.py:175-194
RecvSize(s, n) ==
  /\ sess[s].pc = "recv_size"
  /\ IF SizeRejected(n)
     THEN /\ Set(s, [sess[s] EXCEPT !.pc = "close", !.data_size = n,
                                    !.outcome = "invalid_size"])
          /\ UNCHANGED shared
     ELSE /\ Set(s, [sess[s] EXCEPT !.pc = "recv_frame", !.data_size = n])
          /\ total_frames_received_for_current_image' = 0
          /\ UNCHANGED <<received_image_count, all_received_images_metadata,
                         live_feed_assignments>>
  /\ UNCHANGED <<capture, tx_inputs, server, send_task, conn_seq>>

\* mutant of TotalFramesExpected: the latest frame's total is taken
TotalFramesExpectedLatest(total_frames_expected, current_total_frames) ==
  current_total_frames

\* Receiver.py:221-225 total_frames_expected after a frame: set by the first
\* frame, a later differing total is only logged
TotalFramesExpected(total_frames_expected, current_total_frames) ==
  IF total_frames_expected = -1 THEN current_total_frames
  ELSE total_frames_expected

\* Receiver.py:213-245: the handler's locals after one loop body on a frame
\* (nread, ndup, ooo and foreign record what the peer delivered so far)
AfterFrame(old, full_frame_data) ==
  LET f == ParseFrame(full_frame_data)
  IN  [old EXCEPT
         !.pc = "check",
         !.total_frames_expected =
            TotalFramesExpected(@, f.current_total_frames),
         !.frame_grid = GridPut(@, f.row_idx, f.col_idx, f.chunk),
         !.max_row = Max(@, f.row_idx),
         !.max_col = Max(@, f.col_idx),
         !.nread = @ + 1,
         !.ndup = IF <<f.row_idx, f.col_idx>> \in DOMAIN old.frame_grid
                  THEN @ + 1 ELSE @,
         !.ooo = @ \/ f.frame_idx # old.nread,
         !.foreign = @ \/ full_frame_data \notin Range(old.frame_files)]

\* Receiver.py:207-247: one frame is read, parsed and stored
RecvFrame(s, full_frame_data) ==
  /\ sess[s].pc = "recv_frame"
  /\ Len(full_frame_data) = sess[s].data_size
  /\ AfterFrame(sess[s], full_frame_data).ndup <= MaxDup
  /\ Set(s, AfterFrame(sess[s], full_frame_data))
  /\ total_frames_received_for_current_image' =
       ReceivedCount(AfterFrame(sess[s], full_frame_data).frame_grid,
                     sess[s].nread + 1)
  /\ UNCHANGED <<capture, tx_inputs, server, send_task, conn_seq, received_image_count,
                 all_received_images_metadata, live_feed_assignments>>

\* Receiver.py:340-347 _recv_all(sock, n) when data is all the peer sends
\* before it closes: the first n bytes, or None (here the empty string, which
\* the tests 'if not ...' treat alike) when fewer than n arrive
recv_all(data, n) == IF Len(data) < n THEN <<>> ELSE Slice(data, 0, n)

\* Receiver.py:207-247 with 340-347: the peer closes after sending only the
\* first bytes of a frame
ShortFrame(s, partial) ==
  LET full_frame_data == recv_all(partial, sess[s].data_size)
  IN  /\ sess[s].pc = "recv_frame"
      /\ Len(partial) < sess[s].data_size
      /\ IF full_frame_data = <<>>
         THEN /\ Set(s, [sess[s] EXCEPT !.pc = "after_loop", !.eof = TRUE])
              /\ UNCHANGED total_frames_received_for_current_image
         ELSE /\ Set(s, AfterFrame(sess[s], full_frame_data))
              /\ total_frames_received_for_current_image' =
                   ReceivedCount(AfterFrame(sess[s], full_frame_data).frame_grid,
                                 sess[s].nread + 1)
      /\ UNCHANGED <<capture, tx_inputs, server, send_task, conn_seq, received_image_count,
                     all_received_images_metadata, live_feed_assignments>>

\* Receiver.py:207-210: recv returns nothing, the loop ends
StreamEnd(s) ==
  /\ sess[s].pc = "recv_frame"
  /\ Set(s, [sess[s] EXCEPT !.pc = "after_loop", !.eof = TRUE])
  /\ UNCHANGED <<capture, tx_inputs, server, send_task, conn_seq, shared>>

\* Receiver.py:250-252
CheckComplete(s) ==
  /\ sess[s].pc = "check"
  /\ Set(s, [sess[s] EXCEPT
               !.pc = IF total_frames_received_for_current_image
                         = sess[s].total_frames_expected
                      THEN "after_loop" ELSE "recv_frame"])
  /\ UNCHANGED <<capture, tx_inputs, server, send_task, conn_seq, shared>>

\* Receiver.py:254-270, 314-316
AfterLoop(s) ==
  LET old == sess[s]
  IN  /\ old.pc = "after_loop"
      /\ IF CompleteTest(old.total_frames_expected,
                         total_frames_received_for_current_image)
         THEN Set(s, [old EXCEPT
                        !.pc = "decode",
                        !.reconstructed = TRUE,
                        !.combined_bytes =
                           Reconstruct(old.frame_grid, old.max_row, old.max_col),
                        !.warnings = Cardinality(
                           MissingChunks(old.frame_grid, old.max_row, old.max_col))])
         ELSE Set(s, [old EXCEPT !.pc = "close", !.outcome = "incomplete"])
      /\ UNCHANGED <<capture, tx_inputs, server, send_task, conn_seq, shared>>

\* what cv2.imdecode does with a buffer: it returns an image, it returns
\* None, or it raises cv2.error
CodecResults == {"image", "none", "error"}

\* Receiver.py:281 cv2.imdecode: only a non-empty buffer can hold an image;
\* garbage gives None; on the empty buffer the call gives None or raises
\* cv2.error (the assertion !buf.empty()), depending on the OpenCV build
CodecCan(combined_bytes, result) ==
  IF combined_bytes = <<>> THEN result \in {"none", "error"}
  ELSE result \in {"image", "none"}

\* Receiver.py:281-289, 308-313: the codec is called on combined_bytes.  On
\* None the bytes are written to the FAILED_DECODE file (debug_filepath) and
\* ValueError is raised; an exception of imdecode itself reaches the same
\* except block with debug_filepath still None
Decode(s, result) ==
  /\ sess[s].pc = "decode"
  /\ result \in CodecResults
  /\ CodecCan(sess[s].combined_bytes, result)
  /\ CASE result = "image" ->
            Set(s, [sess[s] EXCEPT
                      !.pc = "write",
                      !.nparr = [from |-> sess[s].transmitter_name,
                                 conn |-> sess[s].conn]])
       [] result = "none" ->
            Set(s, [sess[s] EXCEPT !.pc = "close", !.debug_filepath = TRUE,
                                   !.outcome = "decode_failed"])
       [] OTHER ->
            Set(s, [sess[s] EXCEPT !.pc = "close",
                                   !.outcome = "decode_failed"])
  /\ UNCHANGED <<capture, tx_inputs, server, send_task, conn_seq, shared>>

\* Receiver.py:291-292, 308-313: cv2.imwrite(image_path, nparr) returns, or
\* raises (no writer for the extension of the received filename) and the
\* handler goes to its except block
WriteImage(s, ok) ==
  /\ sess[s].pc = "write"
  /\ IF ok
     THEN Set(s, [sess[s] EXCEPT !.pc = "count_read"])
     ELSE Set(s, [sess[s] EXCEPT !.pc = "close", !.outcome = "write_failed"])
  /\ UNCHANGED <<capture, tx_inputs, server, send_task, conn_seq, shared>>

\* Receiver.py:293 the read of self.received_image_count += 1
CountRead(s) ==
  /\ sess[s].pc = "count_read"
  /\ Set(s, [sess[s] EXCEPT !.pc = "count_write",
                            !.count_tmp = received_image_count])
  /\ UNCHANGED <<capture, tx_inputs, server, send_task, conn_seq, shared>>

\* Receiver.py:293 the write of self.received_image_count += 1
CountWrite(s) ==
  /\ sess[s].pc = "count_write"
  /\ received_image_count' = sess[s].count_tmp + 1
  /\ Set(s, [sess[s] EXCEPT !.pc = "append"])
  /\ UNCHANGED <<capture, tx_inputs, server, send_task, conn_seq, total_frames_received_for_current_image,
                 all_received_images_metadata, live_feed_assignments>>

\* mutant of AppendMetadata: the new entry is put in front
AppendMetadataFront(s) ==
  /\ sess[s].pc = "append"
  /\ all_received_images_metadata' =
       <<[transmitter |-> sess[s].transmitter_name, conn |-> sess[s].conn]>>
         \o all_received_images_metadata
  /\ Set(s, [sess[s] EXCEPT !.pc = "feed_choose"])
  /\ UNCHANGED <<capture, tx_inputs, server, send_task, conn_seq, total_frames_received_for_current_image,
                 received_image_count, live_feed_assignments>>

\* Receiver.py:296-300
AppendMetadata(s) ==
  /\ sess[s].pc = "append"
  /\ all_received_images_metadata' =
       Append(all_received_images_metadata,
              [transmitter |-> sess[s].transmitter_name, conn |-> sess[s].conn])
  /\ Set(s, [sess[s] EXCEPT !.pc = "feed_choose"])
  /\ UNCHANGED <<capture, tx_inputs, server, send_task, conn_seq, total_frames_received_for_current_image,
                 received_image_count, live_feed_assignments>>

\* Receiver.py:599-652 _update_live_feed_display picks assigned_to_feed_index
FeedChoose(s) ==
  /\ sess[s].pc = "feed_choose"
  /\ Set(s, [sess[s] EXCEPT
               !.pc = "feed_name",
               !.assigned_to_feed_index =
                  AssignedIndex(live_feed_assignments, sess[s].transmitter_name)])
  /\ UNCHANGED <<capture, tx_inputs, server, send_task, conn_seq, shared>>

\* Receiver.py:657-658 feed_slot['transmitter_name'] = transmitter_name
FeedWriteName(s) ==
  /\ sess[s].pc = "feed_name"
  /\ live_feed_assignments' =
       [live_feed_assignments EXCEPT
          ![sess[s].assigned_to_feed_index].transmitter_name =
             sess[s].transmitter_name]
  /\ Set(s, [sess[s] EXCEPT !.pc = "feed_image"])
  /\ UNCHANGED <<capture, tx_inputs, server, send_task, conn_seq, total_frames_received_for_current_image,
                 received_image_count, all_received_images_metadata>>

\* Receiver.py:659 feed_slot['last_image_data'] = cv2_image, then 305-306
FeedWriteImage(s) ==
  /\ sess[s].pc = "feed_image"
  /\ live_feed_assignments' =
       [live_feed_assignments EXCEPT
          ![sess[s].assigned_to_feed_index].last_image_data = sess[s].nparr]
  /\ Set(s, [sess[s] EXCEPT !.pc = "close", !.outcome = "success"])
  /\ UNCHANGED <<capture, tx_inputs, server, send_task, conn_seq, total_frames_received_for_current_image,
                 received_image_count, all_received_images_metadata>>

\* Receiver.py:332-337
Close(s) ==
  /\ sess[s].pc = "close"
  /\ Set(s, [sess[s] EXCEPT !.pc = "done"])
  /\ server' = [server EXCEPT !.active_connections = @ \ {sess[s].conn}]
  /\ UNCHANGED <<capture, tx_inputs, send_task, conn_seq, shared>>

\* Receiver.py:142-300 in one step: a connection from sender id is accepted and
\* its handler receives, reconstructs and decodes the image, counts it and
\* appends its metadata; the handler stands before the call at Receiver.py:303
SessionSucceeds(s, id) ==
  /\ sess[s].pc \in {"idle", "done"}
  /\ conn_seq' = conn_seq + 1
  /\ received_image_count' = received_image_count + 1
  /\ all_received_images_metadata' =
       Append(all_received_images_metadata,
              [transmitter |-> id, conn |-> conn_seq + 1])
  /\ Set(s, [IdleSession EXCEPT
               !.pc = "feed_choose", !.conn = conn_seq + 1,
               !.transmitter_name = id, !.reconstructed = TRUE,
               !.nparr = [from |-> id, conn |-> conn_seq + 1]])
  /\ server' = [server EXCEPT !.accepted = @ + 1,
                              !.active_connections = @ \cup {conn_seq + 1}]
  /\ UNCHANGED <<capture, tx_inputs, send_task, total_frames_received_for_current_image,
                 live_feed_assignments>>

\* the steps of a handler thread that take no input from the peer
HandlerStep(s) ==
  \/ CheckComplete(s)
  \/ AfterLoop(s)
  \/ CountRead(s)
  \/ CountWrite(s)
  \/ AppendMetadata(s)
  \/ FeedChoose(s)
  \/ FeedWriteName(s)
  \/ FeedWriteImage(s)
  \/ Close(s)

\* ------------------------------------------------------------ accept loop
\* the variables the listening side leaves alone
notserver == <<capture, tx_inputs, conn_seq, sess, shared, send_task>>

SetAcc(a, r) == server' = [server EXCEPT !.acc[a] = r]

\* an accept loop that never looks at the flag
LoopTestAlways(server_running) == TRUE

\* Receiver.py:123 the condition of while self.server_running
LoopTest(server_running) == server_running

\* Receiver.py:123 while self.server_running
AcceptTest(a) ==
  /\ server.acc[a].pc = "test"
  /\ SetAcc(a, [server.acc[a] EXCEPT
                  !.pc = IF LoopTest(server.server_running)
                         THEN "accept" ELSE "exited"])
  /\ UNCHANGED notserver

\* Receiver.py:126-127 accept() returns a connection
AcceptReturn(a) ==
  /\ server.acc[a].pc = "accept"
  /\ server.server_socket = "listening"
  /\ server.accepted < MaxAccepts
  /\ server' = [server EXCEPT !.acc[a].pc = "start", !.accepted = @ + 1]
  /\ UNCHANGED notserver

\* Receiver.py:125-126, 131-132 the one-second accept timeout
AcceptTimeout(a) ==
  /\ server.acc[a].pc = "accept"
  /\ server.server_socket = "listening"
  /\ SetAcc(a, [server.acc[a] EXCEPT !.pc = "test"])
  /\ UNCHANGED notserver

\* Receiver.py:133-140 accept() fails on the closed socket, the loop ends
AcceptError(a) ==
  /\ server.acc[a].pc = "accept"
  /\ server.server_socket # "listening"
  /\ SetAcc(a, [server.acc[a] EXCEPT !.pc = "exited"])
  /\ UNCHANGED notserver

\* Receiver.py:128-129 the handler thread is created and started
AcceptStart(a, s, input) ==
  /\ server.acc[a].pc = "start"
  /\ HandlerStart(s, input)
  /\ SetAcc(a, [pc |-> "register", handler |-> conn_seq + 1])
  /\ UNCHANGED <<capture, tx_inputs, shared, send_task>>

\* Receiver.py:130 self.active_connections.append(client_handler_thread)
AcceptRegister(a) ==
  /\ server.acc[a].pc = "register"
  /\ server' = [server EXCEPT
                  !.acc[a] = [pc |-> "test", handler |-> 0],
                  !.active_connections = @ \cup {server.acc[a].handler}]
  /\ UNCHANGED notserver

\* ------------------------------------------------------------ stop and start
\* Receiver.py:350-355 stop_server sets the flag (a no-op when not running)
StopFlag ==
  /\ server.stop_pc = "idle"
  /\ server.server_running
  /\ server' = [server EXCEPT !.server_running = FALSE, !.stop_pc = "close"]
  /\ UNCHANGED notserver

\* Receiver.py:356-362 shutdown and close of the listening socket; where
\* shutdown() of a listening socket raises, close() is skipped (shut_ok FALSE)
StopCloseSocket(shut_ok) ==
  /\ server.stop_pc = "close"
  /\ server' = [server EXCEPT
                  !.server_socket = IF shut_ok THEN "closed" ELSE @,
                  !.stop_pc = "join_accept"]
  /\ UNCHANGED notserver

\* Receiver.py:364-368 join(timeout=2) of the accept thread returns, whether
\* the thread has ended or not
StopJoinAccept ==
  /\ server.stop_pc = "join_accept"
  /\ server' = [server EXCEPT !.stop_pc = "join_handlers"]
  /\ UNCHANGED notserver

\* Receiver.py:370-378 join(timeout=1) of each registered handler returns,
\* whether the handler has ended or not; the list is cleared; stop_server returns
StopJoinHandlers ==
  /\ server.stop_pc = "join_handlers"
  /\ server' = [server EXCEPT !.stop_pc = "idle", !.active_connections = {},
                              !.stopped = TRUE]
  /\ UNCHANGED notserver

\* Receiver.py:94-120 start_server (a no-op when running): a new socket is
\* bound and a new accept thread started, or bind fails (ok FALSE)
StartServer(ok) ==
  /\ server.stop_pc = "idle"
  /\ ~server.server_running
  /\ IF ok
     THEN \E a \in AccIds :
            /\ server.acc[a].pc \in {"none", "exited"}
            /\ \A b \in AccIds :
                 server.acc[b].pc \in {"none", "exited"} => a <= b
            /\ server' = [server EXCEPT
                            !.server_running = TRUE,
                            !.server_socket = "listening",
                            !.acc[a] = [pc |-> "test", handler |-> 0],
                            !.stopped = FALSE]
     ELSE server' = [server EXCEPT !.server_socket = "closed"]
  /\ UNCHANGED notserver

\* ------------------------------------------------------------ send task
\* everything but the send task
notsend == <<capture, tx_inputs, conn_seq, sess, shared, server>>

SetSend(r) == send_task' = r

\* Transmitter.py:679-680 the values of the data-size slider
SliderSizes == (header_size + 1)..(header_size + MaxChunk)

\* data sizes data_size_var may hold when the application starts: the
\* slider's values and values that leave no room for a payload
ConfigSizes == (header_size - 1)..(header_size + MaxChunk)

\* a file of 65535 * MaxChunk + 1 zero bytes: its frame count exceeds 65535
\* for every slider value
BigFile == Tail([k \in 1..(65535 * MaxChunk + 2) |-> 0])

\* Transmitter.py:171-177 what a send task is started on
SendInputs ==
  {[file_bytes |-> b, cols |-> n, file_filename |-> FileName(l)] :
     b \in UNION {[1..l -> FileBytes] : l \in 0..MaxLen} \cup {BigFile},
     n \in 1..MaxCols, l \in FileNameLens}

\* Transmitter.py:680 the user moves the data-size slider
SetDataSize(v) ==
  /\ v \in SliderSizes
  /\ v # send_task.data_size_var
  /\ SetSend([send_task EXCEPT !.data_size_var = v])
  /\ UNCHANGED notsend

\* mutant of GenerationFailed: the result of the generation is not looked at
GenerationNeverFailed(gen) == FALSE

\* Transmitter.py:182 if file_filename is None
GenerationFailed(gen) == ~gen.ok

\* Transmitter.py:179-189 with 122-169: _send_data_task generates the frames;
\* an OverflowError leaves generate_frames_from_file and, raised outside the
\* try block of line 194, ends the thread
SendStart(input) ==
  LET gen == generate_frames_from_file(input.file_bytes,
                                       send_task.data_size_var, input.cols)
      started == [send_task EXCEPT
                    !.file_bytes = input.file_bytes,
                    !.cols = input.cols,
                    !.file_filename = input.file_filename,
                    !.total_frame_size = send_task.data_size_var,
                    !.total_frames = gen.total_frames,
                    !.frames = gen.frames]
  IN  /\ send_task.pc = "idle"
      /\ input \in SendInputs
      /\ IF gen.raised
         THEN SetSend([started EXCEPT !.pc = "done",
                                      !.outcome = "overflow_error"])
         ELSE IF GenerationFailed(gen)
         THEN SetSend([started EXCEPT !.pc = "done",
                                      !.outcome = "configuration_error"])
         ELSE SetSend([started EXCEPT !.pc = "connect"])
      /\ UNCHANGED notsend

\* Transmitter.py:196-202 with 100-120: connect and send the identity field
Connect(ok) ==
  /\ send_task.pc = "connect"
  /\ IF ok
     THEN SetSend([send_task EXCEPT
                     !.pc = "send_filename", !.connected = TRUE,
                     !.wire = Ljust(TRANSMITTER_NAME, name_field)])
     ELSE SetSend([send_task EXCEPT !.pc = "done",
                                    !.outcome = "connection_failed"])
  /\ UNCHANGED notsend

\* Transmitter.py:204
SendFilename ==
  /\ send_task.pc = "send_filename"
  /\ SetSend([send_task EXCEPT
                !.pc = "send_size",
                !.wire = @ \o Ljust(send_task.file_filename, filename_field)])
  /\ UNCHANGED notsend

\* Transmitter.py:205 the size field is read from data_size_var again
SendSize ==
  /\ send_task.pc = "send_size"
  /\ SetSend([send_task EXCEPT
                !.pc = "send_frames",
                !.size_sent = send_task.data_size_var,
                !.wire = @ \o ToBytes4(send_task.data_size_var)])
  /\ UNCHANGED notsend

\* Transmitter.py:208-217 the next frame file is sent
SendFrame ==
  /\ send_task.pc = "send_frames"
  /\ send_task.i < send_task.total_frames
  /\ SetSend([send_task EXCEPT
                !.i = @ + 1,
                !.wire = @ \o send_task.frames[send_task.i + 1]])
  /\ UNCHANGED notsend

\* Transmitter.py:220-231, 244-247 all frames sent, the connection is closed
SendComplete ==
  /\ send_task.pc = "send_frames"
  /\ send_task.i = send_task.total_frames
  /\ SetSend([send_task EXCEPT !.pc = "done", !.connected = FALSE,
                               !.outcome = "complete"])
  /\ UNCHANGED notsend

\* Transmitter.py:211-215, 244-247 the frame file of index i is not there:
\* the loop is left, the connection is closed
SendMissing ==
  /\ send_task.pc = "send_frames"
  /\ send_task.i < send_task.total_frames
  /\ SetSend([send_task EXCEPT !.pc = "done", !.connected = FALSE,
                               !.outcome = "missing_frame"])
  /\ UNCHANGED notsend

\* what the sendall call the task stands before is to write
Pending ==
  CASE send_task.pc = "send_filename" ->
         Ljust(send_task.file_filename, filename_field)
    [] send_task.pc = "send_size" -> ToBytes4(send_task.data_size_var)
    [] OTHER -> send_task.frames[send_task.i + 1]

\* mutant of SendFails: the frame is given up, the loop goes on
SendFailsContinues(k) ==
  /\ send_task.pc = "send_frames"
  /\ send_task.i < send_task.total_frames
  /\ k \in 0..Min(MaxPartial, Len(Pending) - 1)
  /\ SetSend([send_task EXCEPT !.i = @ + 1])
  /\ UNCHANGED notsend

\* Transmitter.py:232-247 a sendall raises after k bytes went out: the
\* except block runs, the connection is closed
SendFails(k) ==
  /\ send_task.pc \in {"send_filename", "send_size", "send_frames"}
  /\ send_task.pc = "send_frames" => send_task.i < send_task.total_frames
  /\ k \in 0..Min(MaxPartial, Len(Pending) - 1)
  /\ SetSend([send_task EXCEPT !.pc = "done", !.connected = FALSE,
                               !.partial = Slice(Pending, 0, k),
                               !.outcome = "error"])
  /\ UNCHANGED notsend

\* ------------------------------------------------------------ Spec
\* one connection, served alone, from an arbitrary peer: any handshake size,
\* the produced frames in any order, repeated, altered or left out
SpecIds == {"TxC"}

Next ==
  \/ \E input \in InputsOf(tx_inputs) : conn_seq = 0 /\ Accept(1, input)
  \/ \E id \in SpecIds : RecvName(1, id)
  \/ RecvFilename(1)
  \/ HandshakeClosed(1)
  \/ \E n \in PeerSizes(1) : RecvSize(1, n)
  \/ \E f \in PeerFrames(1) : RecvFrame(1, f)
  \/ \E partial \in ShortReads(1) : ShortFrame(1, partial)
  \/ StreamEnd(1)
  \/ \E result \in CodecResults : Decode(1, result)
  \/ \E ok \in BOOLEAN : WriteImage(1, ok)
  \/ HandlerStep(1)

Spec == Init /\ [][Next]_vars

\* ------------------------------------------------------------ SpecGrid
\* one connection carrying the 12 frames of a 3x4 grid; the peer delivers
\* produced frames only, each at most once, in any order, and may stop early
InitGrid == InitWith("grid")

NextGrid ==
  \/ \E input \in InputsOf(tx_inputs) : conn_seq = 0 /\ Accept(1, input)
  \/ \E id \in SpecIds : RecvName(1, id)
  \/ RecvFilename(1)
  \/ RecvSize(1, sess[1].tx.total_frame_size)
  \/ \E f \in Range(Produced(1)) :
        AfterFrame(sess[1], f).ndup = 0 /\ RecvFrame(1, f)
  \/ StreamEnd(1)
  \/ \E result \in CodecResults : Decode(1, result)
  \/ \E ok \in BOOLEAN : WriteImage(1, ok)
  \/ HandlerStep(1)

SpecGrid == InitGrid /\ [][NextGrid]_vars

\* ------------------------------------------------------------ SpecTotals
\* one connection whose peer announces the transmitter's frame size and
\* delivers, in any order and with repetitions, produced frames and produced
\* frames with another total_frames field
TotalsFrames(s) ==
  Range(Produced(s)) \cup {Retotalled(f) : f \in Range(Produced(s))}

NextTotals ==
  \/ \E input \in InputsOf(tx_inputs) : conn_seq = 0 /\ Accept(1, input)
  \/ \E id \in SpecIds : RecvName(1, id)
  \/ RecvFilename(1)
  \/ RecvSize(1, sess[1].tx.total_frame_size)
  \/ \E f \in TotalsFrames(1) : RecvFrame(1, f)
  \/ StreamEnd(1)
  \/ \E result \in CodecResults : Decode(1, result)
  \/ \E ok \in BOOLEAN : WriteImage(1, ok)
  \/ HandlerStep(1)

SpecTotals == Init /\ [][NextTotals]_vars

\* ------------------------------------------------------------ SpecSparse
\* one connection whose peer announces 11-byte frames and writes any header:
\* any grid position in any order, any frame index and reserved bytes
NextSparse ==
  \/ conn_seq = 0 /\ Accept(1, SparseInput)
  \/ \E id \in SpecIds : RecvName(1, id)
  \/ RecvFilename(1)
  \/ RecvSize(1, header_size + 1)
  \/ \E f \in SparseFrames : RecvFrame(1, f)
  \/ StreamEnd(1)
  \/ \E result \in CodecResults : Decode(1, result)
  \/ \E ok \in BOOLEAN : WriteImage(1, ok)
  \/ HandlerStep(1)

SpecSparse == Init /\ [][NextSparse]_vars

\* ------------------------------------------------------------ SpecIndex
\* one connection whose peer announces the transmitter's frame size and
\* delivers, in any order and with repetitions, the produced frames, each
\* with its own or another frame index and reserved bytes
IndexFrames(s) ==
  Range(Produced(s))
    \cup {Reindexed(f, i, resv) :
            f \in Range(Produced(s)), i \in PeerIndexes, resv \in PeerReserved}

NextIndex ==
  \/ \E input \in InputsOf(tx_inputs) : conn_seq = 0 /\ Accept(1, input)
  \/ \E id \in SpecIds : RecvName(1, id)
  \/ RecvFilename(1)
  \/ RecvSize(1, sess[1].tx.total_frame_size)
  \/ \E f \in IndexFrames(1) : RecvFrame(1, f)
  \/ StreamEnd(1)
  \/ \E result \in CodecResults : Decode(1, result)
  \/ \E ok \in BOOLEAN : WriteImage(1, ok)
  \/ HandlerStep(1)

SpecIndex == Init /\ [][NextIndex]_vars

\* ------------------------------------------------------------ SpecConc
\* two handler threads serve one connection each, at the same time; each
\* transmitter sends the handshake and its frames in index order, once, and
\* closes after the last frame
ConcInputs(s) ==
  {[file_bytes |-> [i \in 1..l |-> s % 2], total_frame_size |-> header_size + 1,
    cols |-> MaxCols] : l \in 1..(MaxLen - 1)}

\* the handler threads that run in SpecConc
ConcSessions == {1, 2}

NextConc ==
  \/ \E s \in ConcSessions : \E input \in ConcInputs(s) :
        sess[s].pc = "idle" /\ input \in InputsOf(tx_inputs) /\ Accept(s, input)
  \/ \E s \in ConcSessions : RecvName(s, "TxC")
  \/ \E s \in ConcSessions : RecvFilename(s)
  \/ \E s \in ConcSessions : RecvSize(s, sess[s].tx.total_frame_size)
  \/ \E s \in ConcSessions :
        /\ sess[s].nread < Len(sess[s].frame_files)
        /\ RecvFrame(s, sess[s].frame_files[sess[s].nread + 1])
  \/ \E s \in ConcSessions :
        sess[s].nread = Len(sess[s].frame_files) /\ StreamEnd(s)
  \/ \E s \in ConcSessions : Decode(s, "image")
  \/ \E s \in ConcSessions : \E ok \in BOOLEAN : WriteImage(s, ok)
  \/ \E s \in ConcSessions : HandlerStep(s)

SpecConc == Init /\ [][NextConc]_vars

\* ------------------------------------------------------------ SpecFeed
\* successful sessions one after another: the next connection is accepted
\* when the handler of the one before has ended
NextFeed ==
  \/ \E id \in Ids : conn_seq < MaxConn /\ SessionSucceeds(1, id)
  \/ FeedChoose(1)
  \/ FeedWriteName(1)
  \/ FeedWriteImage(1)
  \/ Close(1)

SpecFeed == Init /\ [][NextFeed]_vars

\* ------------------------------------------------------------ SpecFeedConc
\* successful sessions at the same time, one per handler thread
ConcIds == {"Tx1", "TxC", "TxD"}

NextFeedConc ==
  \/ \E s \in Sessions : \E id \in ConcIds :
        sess[s].pc = "idle" /\ SessionSucceeds(s, id)
  \/ \E s \in Sessions : FeedChoose(s)
  \/ \E s \in Sessions : FeedWriteName(s)
  \/ \E s \in Sessions : FeedWriteImage(s)
  \/ \E s \in Sessions : Close(s)

SpecFeedConc == Init /\ [][NextFeedConc]_vars

\* ------------------------------------------------------------ SpecIso
\* two handler threads at the same time: connection 1 is a transmitter that
\* sends its handshake and all its frames in order and closes; connection 2
\* fails: it closes inside the handshake, announces size 0, stops answering,
\* closes before its last frame, or delivers bytes the codec rejects
NextIso ==
  \/ \E s \in ConcSessions : \E input \in ConcInputs(s) :
        sess[s].pc = "idle" /\ Accept(s, input)
  \/ \E s \in ConcSessions : RecvName(s, "TxC")
  \/ \E s \in ConcSessions : RecvFilename(s)
  \/ HandshakeClosed(2)
  \/ RecvTimeout(2)
  \/ RecvSize(1, sess[1].tx.total_frame_size)
  \/ \E n \in {0, sess[2].tx.total_frame_size} : RecvSize(2, n)
  \/ \E s \in ConcSessions :
        /\ sess[s].nread < Len(sess[s].frame_files)
        /\ RecvFrame(s, sess[s].frame_files[sess[s].nread + 1])
  \/ sess[1].nread = Len(sess[1].frame_files) /\ StreamEnd(1)
  \/ StreamEnd(2)
  \/ Decode(1, "image")
  \/ Decode(2, "none")
  \/ WriteImage(1, TRUE)
  \/ \E s \in ConcSessions : HandlerStep(s)

SpecIso == Init /\ [][NextIso]_vars

\* ------------------------------------------------------------ SpecStop
\* the listening side with Stop Server and Start Server pressed at any time;
\* one handler thread serves the connections, each from a transmitter that
\* sends its handshake and its frames in order and may close at any time
NextStop ==
  \/ \E a \in AccIds : AcceptTest(a)
  \/ \E a \in AccIds : AcceptReturn(a)
  \/ \E a \in AccIds : AcceptTimeout(a)
  \/ \E a \in AccIds : AcceptError(a)
  \/ \E a \in AccIds : \E input \in ConcInputs(1) : AcceptStart(a, 1, input)
  \/ \E a \in AccIds : AcceptRegister(a)
  \/ StopFlag
  \/ \E shut_ok \in BOOLEAN : StopCloseSocket(shut_ok)
  \/ StopJoinAccept
  \/ StopJoinHandlers
  \/ \E ok \in BOOLEAN : StartServer(ok)
  \/ RecvName(1, "TxC")
  \/ RecvFilename(1)
  \/ RecvSize(1, sess[1].tx.total_frame_size)
  \/ /\ sess[1].nread < Len(sess[1].frame_files)
     /\ RecvFrame(1, sess[1].frame_files[sess[1].nread + 1])
  \/ StreamEnd(1)
  \/ Decode(1, "image")
  \/ WriteImage(1, TRUE)
  \/ HandlerStep(1)

SpecStop == Init /\ [][NextStop]_vars

\* ------------------------------------------------------------ SpecStopLive
\* the lowest handler thread that does not run: creating and starting a thread
\* (Receiver.py:128-129) never waits for another handler
FreeSession(s) ==
  /\ sess[s].pc \in {"idle", "done"}
  /\ \A t \in Sessions : sess[t].pc \in {"idle", "done"} => s <= t

\* what the transmitters of this specification would send: one frame of one byte
LiveInput ==
  [file_bytes |-> <<1>>, total_frame_size |-> header_size + 1, cols |-> 1]

\* a step of accept-loop thread a (Receiver.py:122-140)
AcceptorStep(a) ==
  \/ AcceptTest(a)
  \/ server.accepted < MaxLiveAccepts /\ AcceptReturn(a)
  \/ AcceptTimeout(a)
  \/ AcceptError(a)
  \/ \E s \in Sessions : FreeSession(s) /\ AcceptStart(a, s, LiveInput)
  \/ AcceptRegister(a)

\* the listening side with Stop Server and Start Server pressed at any time;
\* every connection is closed by its transmitter before the handshake
NextStopLive ==
  \/ \E a \in AccIds : AcceptorStep(a)
  \/ StopFlag
  \/ \E shut_ok \in BOOLEAN : StopCloseSocket(shut_ok)
  \/ StopJoinAccept
  \/ StopJoinHandlers
  \/ \E ok \in BOOLEAN : StartServer(ok)
  \/ \E s \in Sessions : HandshakeClosed(s)
  \/ \E s \in Sessions : Close(s)

\* an accept-loop thread that can take a step takes one: the thread is
\* scheduled, and accept() returns after at most the timeout set at
\* Receiver.py:125
SpecStopLive ==
  Init /\ [][NextStopLive]_vars /\ \A a \in AccIds : WF_vars(AcceptorStep(a))

\* ------------------------------------------------------------ SpecSend
\* one run of the transmitter's send task on any file, with the data-size
\* slider moved at any time
InitSend ==
  /\ tx_inputs = "any"
  /\ conn_seq = 0
  /\ capture = IdleCapture
  /\ sess = [s \in Sessions |-> IdleSession]
  /\ total_frames_received_for_current_image = 0
  /\ received_image_count = 0
  /\ all_received_images_metadata = <<>>
  /\ live_feed_assignments = EmptyFeedTable
  /\ server = ServerStarted
  /\ send_task \in {[IdleSendTask EXCEPT !.data_size_var = v] : v \in ConfigSizes}

NextSend ==
  \/ \E v \in SliderSizes : SetDataSize(v)
  \/ \E input \in SendInputs : SendStart(input)
  \/ \E ok \in BOOLEAN : Connect(ok)
  \/ SendFilename
  \/ SendSize
  \/ SendFrame
  \/ SendComplete
  \/ SendMissing
  \/ \E k \in 0..MaxPartial : SendFails(k)

SpecSend == InitSend /\ [][NextSend]_vars

\* ------------------------------------------------------------ SpecLive
\* Receiver.py:207-247: the peer sends again a frame whose position is already
\* in the grid; the loop body is the same as for any frame (of the record of
\* what the peer delivered, nread is kept and ndup stops at MaxDup, so that a
\* peer that never stops sending is a finite-state peer)
RecvAgain(s, full_frame_data) ==
  LET f == ParseFrame(full_frame_data)
      new == AfterFrame(sess[s], full_frame_data)
  IN  /\ sess[s].pc = "recv_frame"
      /\ Len(full_frame_data) = sess[s].data_size
      /\ <<f.row_idx, f.col_idx>> \in DOMAIN sess[s].frame_grid
      /\ Set(s, [new EXCEPT !.nread = sess[s].nread,
                            !.ndup = Min(new.ndup, MaxDup)])
      /\ total_frames_received_for_current_image' =
           ReceivedCount(new.frame_grid, sess[s].nread + 1)
      /\ UNCHANGED <<capture, tx_inputs, server, send_task, conn_seq, received_image_count,
                     all_received_images_metadata, live_feed_assignments>>

\* Receiver.py:148-210 with 340-347: a blocking read of handler s returns
\* data, reports that the peer closed, or meets the 60-second timeout
ReadReturns(s) ==
  \/ RecvName(s, "TxC")
  \/ RecvFilename(s)
  \/ RecvSize(s, sess[s].tx.total_frame_size)
  \/ /\ sess[s].nread < Len(sess[s].frame_files)
     /\ RecvFrame(s, sess[s].frame_files[sess[s].nread + 1])
  \/ \E f \in Range(Produced(s)) : RecvAgain(s, f)
  \/ HandshakeClosed(s)
  \/ StreamEnd(s)
  \/ RecvTimeout(s)

\* Receiver.py:250-337: a step of handler s that waits for nothing
Computes(s) ==
  \/ HandlerStep(s)
  \/ \E result \in CodecResults : Decode(s, result)
  \/ \E ok \in BOOLEAN : WriteImage(s, ok)

\* the handler threads that run in SpecLive
LiveSessions == {1}

\* handler threads on connections of transmitters that send their handshake
\* and their frames in order, may send a frame again any number of times, and
\* may close or fall silent at any time
NextLive ==
  \/ \E s \in LiveSessions : \E input \in ConcInputs(s) :
        /\ sess[s].pc \in {"idle", "done"}
        /\ server.accepted < MaxAccepts
        /\ Accept(s, input)
  \/ \E s \in LiveSessions : ReadReturns(s)
  \/ \E s \in LiveSessions : Computes(s)

\* a handler thread that can take a step takes one, and each of its blocking
\* reads returns (data, end of stream, or the timeout set at Receiver.py:145)
SpecLive ==
  /\ Init
  /\ [][NextLive]_vars
  /\ \A s \in LiveSessions : WF_vars(Computes(s)) /\ WF_vars(ReadReturns(s))

\* ------------------------------------------------------------ SpecCapture
\* everything but the continuous capture
notcapture == <<tx_inputs, conn_seq, sess, shared, server, send_task>>

\* Transmitter.py:316-320 with 267-290: Start Camera; the camera opens or not
StartCamera(ok) ==
  /\ capture.toggle_pc = "idle"
  /\ capture' = [capture EXCEPT !.camera_running = @ \/ ok]
  /\ UNCHANGED notcapture

\* Transmitter.py:322-334 Stop Camera is refused while continuous capture is
\* active
StopCamera ==
  /\ capture.toggle_pc = "idle"
  /\ ~capture.is_continuous_capture_active
  /\ capture' = [capture EXCEPT !.camera_running = FALSE]
  /\ UNCHANGED notcapture

\* Transmitter.py:783-784 the button is pressed while capture is active: the
\* flag is cleared
ToggleStop ==
  /\ capture.toggle_pc = "idle"
  /\ capture.is_continuous_capture_active
  /\ capture' = [capture EXCEPT !.is_continuous_capture_active = FALSE,
                                !.toggle_pc = "join"]
  /\ UNCHANGED notcapture

\* Transmitter.py:786-793 join(timeout=1) of the capture thread returns,
\* whether the thread has ended or not (it may still sleep its interval of
\* 5 seconds, Transmitter.py:66, 824)
ToggleJoin ==
  /\ capture.toggle_pc = "join"
  /\ capture' = [capture EXCEPT !.toggle_pc = "idle"]
  /\ UNCHANGED notcapture

\* Transmitter.py:795-817 the button is pressed while capture is inactive,
\* with the camera on (timer capture off, data size within 55..100): the flag
\* is set and a new capture thread is started
ToggleStart ==
  /\ capture.toggle_pc = "idle"
  /\ ~capture.is_continuous_capture_active
  /\ capture.camera_running
  /\ \E t \in CapIds :
       /\ capture.loop[t] \in {"none", "exited"}
       /\ \A u \in CapIds : capture.loop[u] \in {"none", "exited"} => t <= u
       /\ capture' = [capture EXCEPT !.is_continuous_capture_active = TRUE,
                                     !.loop[t] = "test"]
  /\ UNCHANGED notcapture

\* Transmitter.py:820 the condition of while self.is_continuous_capture_active
CaptureTest(is_continuous_capture_active) == is_continuous_capture_active

\* Transmitter.py:820 the loop test of capture thread t
LoopCheck(t) ==
  /\ capture.loop[t] = "test"
  /\ capture' = [capture EXCEPT
                   !.loop[t] = IF CaptureTest(capture.is_continuous_capture_active)
                               THEN "capture" ELSE "exited"]
  /\ UNCHANGED notcapture

\* Transmitter.py:821-822 auto_capture_photo returns a path or None
LoopCapture(t, ok) ==
  /\ capture.loop[t] = "capture"
  /\ capture.captured < MaxCaptures
  /\ capture' = [capture EXCEPT !.loop[t] = IF ok THEN "send" ELSE "sleep",
                                !.captured = IF ok THEN @ + 1 ELSE @]
  /\ UNCHANGED notcapture

\* Transmitter.py:823 send_data_to_receiver_threaded starts a send task
LoopSend(t) ==
  /\ capture.loop[t] = "send"
  /\ capture' = [capture EXCEPT !.loop[t] = "sleep"]
  /\ UNCHANGED notcapture

\* Transmitter.py:824 time.sleep of the interval returns
LoopSleep(t) ==
  /\ capture.loop[t] = "sleep"
  /\ capture' = [capture EXCEPT !.loop[t] = "test"]
  /\ UNCHANGED notcapture

\* the sender's camera and Continuous Capture buttons pressed at any time
NextCapture ==
  \/ \E ok \in BOOLEAN : StartCamera(ok)
  \/ StopCamera
  \/ ToggleStop
  \/ ToggleJoin
  \/ ToggleStart
  \/ \E t \in CapIds : LoopCheck(t)
  \/ \E t \in CapIds : \E ok \in BOOLEAN : LoopCapture(t, ok)
  \/ \E t \in CapIds : LoopSend(t)
  \/ \E t \in CapIds : LoopSleep(t)

SpecCapture == Init /\ [][NextCapture]_vars

\* ------------------------------------------------------------ claims
\* the handler has left its receive loop and the branch after it
PastLoop(s) == sess[s].pc \in {"decode", "write", "count_read", "count_write", "append",
                               "feed_choose", "feed_name", "feed_image",
                               "close", "done"}

\* the handshake announced the transmitter's frame size
SizeAgreed(s) ==
  /\ sess[s].pc \notin {"idle", "recv_name", "recv_filename", "recv_size"}
  /\ sess[s].data_size = sess[s].tx.total_frame_size

\* connection s was fed every produced frame, each exactly once, nothing else
FedAll(s) ==
  /\ SizeAgreed(s)
  /\ PastLoop(s)
  /\ ~sess[s].foreign
  /\ sess[s].ndup = 0
  /\ sess[s].nread = Len(sess[s].frame_files)

\* the zero bytes that fill the last chunk of a file
Padding(input) ==
  LET chunk_size == input.total_frame_size - header_size
  IN  Zeros((chunk_size - (Len(input.file_bytes) % chunk_size)) % chunk_size)

\* C1 as stated: a session fed all produced frames reconstructs exactly the
\* original bytes (same length, same content).
C1_RoundTripExact ==
  \A s \in Sessions :
    FedAll(s) =>
      sess[s].reconstructed /\ sess[s].combined_bytes = sess[s].tx.file_bytes

\* C1 amended: a session fed all produced frames of a non-empty file
\* reconstructs the original bytes followed by the zero padding of the last
\* chunk; an empty file produces no frame and no reconstruction.
C1_RoundTripPadded ==
  \A s \in Sessions :
    FedAll(s) =>
      IF sess[s].tx.file_bytes = <<>>
      THEN ~sess[s].reconstructed
      ELSE /\ sess[s].reconstructed
           /\ sess[s].combined_bytes
                = sess[s].tx.file_bytes \o Padding(sess[s].tx)

\* C1 witness: a session fed all frames, out of order, of a file whose last
\* chunk is padded, has reconstructed
C1_Witness ==
  \E s \in Sessions :
    /\ FedAll(s)
    /\ sess[s].reconstructed
    /\ sess[s].ooo
    /\ Padding(sess[s].tx) # <<>>
    /\ Len(sess[s].frame_files) >= 2

\* C4 as stated: a handshake size of 10 or less ends the session as rejected
\* before any frame is read: nothing read, nothing stored, connection closed.
C4_SmallSizeRejected ==
  \A s \in Sessions :
    (sess[s].pc \notin {"idle", "recv_name", "recv_filename", "recv_size"}
     /\ sess[s].data_size <= header_size)
    => /\ sess[s].pc \in {"close", "done"}
       /\ sess[s].outcome = "invalid_size"
       /\ sess[s].nread = 0
       /\ sess[s].frame_grid = <<>>

\* C5 as stated: with 11 of the 12 frames of a 3x4 grid delivered and the
\* stream ended, the receiver reconstructs the 11 chunks in row-major order
\* with an empty gap and records exactly one integrity warning.
OneOfTwelveMissing(s) ==
  /\ SizeAgreed(s)
  /\ PastLoop(s)
  /\ Len(sess[s].frame_files) = 12
  /\ sess[s].tx.cols = 4
  /\ ~sess[s].foreign
  /\ sess[s].ndup = 0
  /\ sess[s].nread = 11

C5_MissingChunkReconstructed ==
  \A s \in Sessions :
    OneOfTwelveMissing(s) =>
      /\ sess[s].reconstructed
      /\ sess[s].combined_bytes = Reconstruct(sess[s].frame_grid, 2, 3)
      /\ sess[s].warnings = 1

\* C5 amended: with 11 of the 12 frames delivered and the stream ended, the
\* session ends as an incomplete transfer: no reconstruction, no integrity
\* warning, no image counted.
C5_MissingChunkAborts ==
  \A s \in Sessions :
    OneOfTwelveMissing(s) =>
      /\ ~sess[s].reconstructed
      /\ sess[s].outcome = "incomplete"
      /\ sess[s].warnings = 0
      /\ received_image_count = 0

\* C5 witness: the session over, 11 distinct grid positions stored
C5_Witness ==
  \E s \in Sessions :
    /\ OneOfTwelveMissing(s)
    /\ sess[s].pc = "done"
    /\ Cardinality(DOMAIN sess[s].frame_grid) = 11
    /\ sess[s].total_frames_expected = 12

\* the handler's locals after the produced frames arrive in index order
RECURSIVE FeedInOrder(_, _)
FeedInOrder(loc, frames) ==
  IF frames = <<>> THEN loc
  ELSE FeedInOrder(AfterFrame(loc, Head(frames)), Tail(frames))

InOrder(s) ==
  FeedInOrder([IdleSession EXCEPT !.frame_files = sess[s].frame_files],
              sess[s].frame_files)

\* C6: delivering the produced frames in any permutation gives the completion
\* decision and the reconstructed bytes of the delivery in index order.
C6_OrderIndependent ==
  \A s \in Sessions :
    /\ FedAll(s) =>
         /\ sess[s].reconstructed
              = CompleteTest(InOrder(s).total_frames_expected,
                             ReceivedCount(InOrder(s).frame_grid, InOrder(s).nread))
         /\ sess[s].reconstructed =>
              sess[s].combined_bytes
                = Reconstruct(InOrder(s).frame_grid, InOrder(s).max_row,
                              InOrder(s).max_col)
    /\ (SizeAgreed(s) /\ sess[s].reconstructed /\ ~sess[s].foreign
        /\ sess[s].ndup = 0)
         => sess[s].nread = Len(sess[s].frame_files)

\* C6 witness: three or more frames, delivered out of index order, reconstructed
C6_Witness ==
  \E s \in Sessions :
    /\ FedAll(s)
    /\ sess[s].ooo
    /\ sess[s].reconstructed
    /\ Len(sess[s].frame_files) >= 3

\* a step of handler s that stores a frame at a grid position already filled
Redelivery(s) ==
  /\ sess[s].pc = "recv_frame"
  /\ sess'[s].pc = "check"
  /\ sess'[s].ndup = sess[s].ndup + 1

\* C7: a re-delivered frame leaves the count of distinct positions, max_row,
\* max_col and every other position's chunk unchanged, and the completion
\* test that follows it does not fire.
C7_RedeliveryIdempotent ==
  [][\A s \in Sessions :
       Redelivery(s) =>
         /\ DOMAIN sess'[s].frame_grid = DOMAIN sess[s].frame_grid
         /\ total_frames_received_for_current_image'
              = total_frames_received_for_current_image
         /\ total_frames_received_for_current_image'
              = Cardinality(DOMAIN sess[s].frame_grid)
         /\ sess'[s].max_row = sess[s].max_row
         /\ sess'[s].max_col = sess[s].max_col
         /\ sess'[s].total_frames_expected = sess[s].total_frames_expected
         /\ \E p \in DOMAIN sess[s].frame_grid :
              \A q \in DOMAIN sess[s].frame_grid \ {p} :
                sess'[s].frame_grid[q] = sess[s].frame_grid[q]
         /\ total_frames_received_for_current_image'
              # sess'[s].total_frames_expected]_vars

\* C7 witness: a re-delivery replaced a stored chunk by a different payload
\* while another position was already stored
C7_Witness ==
  \E s \in Sessions :
    /\ sess[s].ndup = 1
    /\ Cardinality(DOMAIN sess[s].frame_grid) >= 2
    /\ \E p \in DOMAIN sess[s].frame_grid :
         FillByte \in Range(sess[s].frame_grid[p])
    /\ \E k \in DOMAIN sess[s].frame_files :
         /\ ParseFrame(sess[s].frame_files[k]).chunk \notin Range(sess[s].frame_grid)
         /\ ParseFrame(Altered(sess[s].frame_files[k])).chunk
              \in Range(sess[s].frame_grid)

\* C2 as stated: with concurrent connections that each deliver all their
\* frames, every session completes and reconstructs the bytes of its own
\* frames, and its grid holds only chunks of its own frames.
C2_ConcurrentSessionsComplete ==
  \A s \in Sessions :
    /\ \A p \in DOMAIN sess[s].frame_grid :
         \E k \in DOMAIN sess[s].frame_files :
           /\ GridPos(k - 1, sess[s].tx.cols) = p
           /\ ParseFrame(sess[s].frame_files[k]).chunk = sess[s].frame_grid[p]
    /\ (SizeAgreed(s) /\ PastLoop(s)) =>
         /\ sess[s].nread = Len(sess[s].frame_files)
         /\ sess[s].reconstructed
         /\ sess[s].combined_bytes = sess[s].tx.file_bytes \o Padding(sess[s].tx)

\* the label of slot i
Label(i) == live_feed_assignments[i].transmitter_name

\* C3 as stated: no sender identity labels two different slots.
C3_NoIdentityInTwoSlots ==
  \A i \in SlotIdx : \A j \in SlotIdx :
    (i # j /\ Label(i) # NA) => Label(i) # Label(j)

\* the arrivals of C8 (A = Tx1 and B = Tx2 hold the preferences 0 and 1) and
\* the slots the claim gives them
C8Arrivals == <<"Tx1", "Tx2", "TxC", "TxD", "TxE">>
C8Slots == <<0, 1, 2, 3, 0>>

\* the senders of the completed transfers, in order
Arrived == [k \in DOMAIN all_received_images_metadata |->
              all_received_images_metadata[k].transmitter]

\* C8: from the empty table the arrivals A, B, C, D, E, one after another, are
\* assigned the slots 0, 1, 2, 3, 0; afterwards slot 0 holds E and A no slot.
C8_AssignmentTrace ==
  \A k \in 1..5 :
    (Arrived = SubSeq(C8Arrivals, 1, k) /\ sess[1].pc = "done") =>
       /\ sess[1].assigned_to_feed_index = C8Slots[k]
       /\ live_feed_assignments[C8Slots[k]]
            = [transmitter_name |-> C8Arrivals[k],
               last_image_data |-> [from |-> C8Arrivals[k], conn |-> k]]
       /\ k = 5 => /\ Label(0) = "TxE"
                   /\ \A i \in SlotIdx : Label(i) # "Tx1"
                   /\ [i \in SlotIdx |-> Label(i)]
                        = (0 :> "TxE" @@ 1 :> "Tx2" @@ 2 :> "TxC" @@ 3 :> "TxD")

\* C8 witness: the five arrivals have been processed
C8_Witness ==
  /\ Arrived = C8Arrivals
  /\ sess[1].pc = "done"
  /\ Label(0) = "TxE"

\* the slot the rules of C9 give identity id on table t, read off the labels:
\* a slot is unassigned when labelled 'N/A', held by id when labelled id
ClaimedSlot(t, id) ==
  LET Unassigned(i) == t[i].transmitter_name = NA
      Held(i) == t[i].transmitter_name = id
      Lowest(S) == CHOOSE i \in S : \A j \in S : i <= j
      free == {i \in SlotIdx : Unassigned(i)}
      open == {i \in free :
                 ~\E other \in DOMAIN preferred_assignments :
                     other # id /\ preferred_assignments[other] = i}
  IN  IF id \in DOMAIN preferred_assignments
         /\ (Unassigned(preferred_assignments[id]) \/ Held(preferred_assignments[id]))
      THEN preferred_assignments[id]
      ELSE IF \E i \in SlotIdx : Held(i) THEN Lowest({i \in SlotIdx : Held(i)})
      ELSE IF open # {} THEN Lowest(open)
      ELSE IF free # {} THEN Lowest(free)
      ELSE 0

C10_ImageMatchesLabel ==
  \A i \in SlotIdx :
    live_feed_assignments[i].last_image_data # NoImage =>
      live_feed_assignments[i].last_image_data.from = Label(i)

\* the handler of session s has left _update_live_feed_display
FeedUpdated(s) ==
  /\ sess[s].pc \in {"close", "done"}
  /\ sess[s].assigned_to_feed_index # -1

\* C11 as stated: sessions of distinct identities that ran the slot policy
\* at the same time on a table with free slots end up in different slots, and
\* each slot keeps the identity and the image of its session.
C11_DistinctIdentitiesDistinctSlots ==
  \A s \in Sessions : \A u \in Sessions :
    (s # u /\ FeedUpdated(s) /\ FeedUpdated(u)
       /\ sess[s].transmitter_name # sess[u].transmitter_name) =>
      /\ sess[s].assigned_to_feed_index # sess[u].assigned_to_feed_index
      /\ live_feed_assignments[sess[s].assigned_to_feed_index].transmitter_name
           = sess[s].transmitter_name

\* C12 as stated, for the session next to a failing one: connection 1, whose
\* transmitter delivers every frame and which completes when served alone,
\* still completes and reconstructs its file while connection 2 fails.
C12_FailingSessionIsolated ==
  PastLoop(1) =>
    /\ sess[1].reconstructed
    /\ sess[1].combined_bytes = sess[1].tx.file_bytes \o Padding(sess[1].tx)

\* the send task has written the whole handshake
HandshakeSent == send_task.size_sent # 0

\* the frames the send task has written so far
FramesSent == SubSeq(send_task.frames, 1, send_task.i)

\* C13: the sender writes 50 bytes of identity, then 100 bytes of filename,
\* then the 4-byte big-endian frame size, all before the first frame byte;
\* the receiver, reading 50, 100 and 4 bytes, gets the same three fields, and
\* the first frame it reads starts at the first frame byte the sender wrote.
C13_HandshakeOrder ==
  LET h == ReadHandshake(send_task.wire)
      hs_len == name_field + filename_field + size_field
  IN  /\ send_task.pc = "send_filename" =>
            send_task.wire = Ljust(TRANSMITTER_NAME, name_field)
      /\ send_task.pc = "send_size" =>
            /\ Len(send_task.wire) = name_field + filename_field
            /\ send_task.i = 0
      /\ ~HandshakeSent => /\ send_task.i = 0
                           /\ Len(send_task.wire) \in
                                {0, name_field, name_field + filename_field}
      /\ HandshakeSent =>
            /\ Len(send_task.wire) >= hs_len
            /\ h.transmitter_name = TRANSMITTER_NAME
            /\ h.filename = send_task.file_filename
            /\ h.data_size = send_task.size_sent
            /\ h.rest = Join(FramesSent)
            /\ (send_task.i >= 1
                  /\ send_task.size_sent = Len(send_task.frames[1])) =>
                 h.first_frame = send_task.frames[1]

\* C13 witness: a transfer of two frames or more was sent completely
C13_Witness ==
  /\ send_task.outcome = "complete"
  /\ send_task.i >= 2
  /\ ReadHandshake(send_task.wire).first_frame = send_task.frames[1]
  /\ Len(send_task.wire)
       = name_field + filename_field + size_field
           + send_task.total_frames * send_task.total_frame_size

\* the errors of a handshake cut short, by the field that was being read
ShortHandshakeErrors == {"aborted_name", "aborted_filename", "aborted_size"}

\* C14: when the connection closes before the identity, the filename or the
\* frame size has arrived in full, the session fails with the error of the
\* first incomplete field, reads no frame, leaves the Feed Slot Table, the
\* completed-transfer list and the counters alone, and closes the connection.
C14_ShortHandshake ==
  [][\A s \in Sessions :
       /\ (sess[s].pc \in {"recv_name", "recv_filename", "recv_size"}
             /\ sess'[s].outcome \in ShortHandshakeErrors) =>
            /\ sess'[s].outcome
                 = CASE sess[s].pc = "recv_name" -> "aborted_name"
                     [] sess[s].pc = "recv_filename" -> "aborted_filename"
                     [] sess[s].pc = "recv_size" -> "aborted_size"
            /\ sess'[s].pc = "close"
            /\ UNCHANGED shared
       /\ sess[s].outcome \in ShortHandshakeErrors =>
            /\ sess[s].nread = 0
            /\ sess[s].frame_grid = <<>>
            /\ sess[s].pc \in {"close", "done"}
            /\ sess'[s].pc = "done"
            /\ sess'[s].conn \notin server'.active_connections
            /\ UNCHANGED shared]_vars

\* C14 witness: the connection closed while the filename was read; the
\* handler has ended
C14_Witness ==
  \E s \in Sessions :
    /\ sess[s].outcome = "aborted_filename"
    /\ sess[s].pc = "done"
    /\ sess[s].transmitter_name # ""

\* ceil(L / P) for P > 0
CeilDiv(L, P) == IF L % P = 0 THEN L \div P ELSE (L \div P) + 1

\* the send task has run the splitter with a payload size above 0
SplitterRan ==
  /\ send_task.pc # "idle"
  /\ send_task.total_frame_size > header_size

\* the frame C15 describes for index i of N: the five header fields, two
\* bytes each, big-endian, then bytes [i*P, (i+1)*P) of the input padded
\* with zeros to P bytes
ClaimedFrame(bytes, P, C, N, i) ==
  <<i \div 256, i % 256, (i \div C) \div 256, (i \div C) % 256,
    (i % C) \div 256, (i % C) % 256, N \div 256, N % 256, 0, 0>>
    \o [k \in 1..P |-> IF i * P + k <= Len(bytes) THEN bytes[i * P + k] ELSE 0]

\* what C15 says of the frames emitted for the send task's input
SplitterContract ==
  LET P == send_task.total_frame_size - header_size
      N == CeilDiv(Len(send_task.file_bytes), P)
  IN  /\ Len(send_task.frames) = N
      /\ \A i \in 0..(N - 1) :
           /\ send_task.frames[i + 1]
                = ClaimedFrame(send_task.file_bytes, P, send_task.cols, N, i)
           /\ Len(send_task.frames[i + 1]) = send_task.total_frame_size
           /\ \A k \in 1..Len(send_task.frames[i + 1]) :
                send_task.frames[i + 1][k] \in 0..255
      /\ \A i \in 1..N : \A j \in 1..N :
           i # j =>
             <<ParseFrame(send_task.frames[i]).row_idx,
               ParseFrame(send_task.frames[i]).col_idx>>
               # <<ParseFrame(send_task.frames[j]).row_idx,
                   ParseFrame(send_task.frames[j]).col_idx>>

\* C15 as stated: for every input of length L and payload size P > 0 the
\* splitter emits exactly ceil(L / P) frames of the described form.
C15_SplitterAnyLength ==
  SplitterRan => SplitterContract

\* C15 amended: the splitter emits the ceil(L / P) described frames when
\* ceil(L / P) <= 65535, and no frame at all when ceil(L / P) > 65535.
C15_SplitterInRange ==
  SplitterRan =>
    IF CeilDiv(Len(send_task.file_bytes),
               send_task.total_frame_size - header_size) <= 65535
    THEN SplitterContract
    ELSE send_task.frames = <<>>

\* C15 witness: two frames on two rows were emitted, the second one padded
C15_Witness ==
  /\ SplitterRan
  /\ Len(send_task.frames) = 2
  /\ send_task.cols = 1
  /\ Len(send_task.file_bytes) = 3
  /\ ParseFrame(send_task.frames[2]).row_idx = 1
  /\ ParseFrame(send_task.frames[2]).chunk = <<send_task.file_bytes[3], 0>>

\* C16: when the configured frame size leaves no payload (frame size <= 10)
\* the send task reports the configuration error and ends; it opens no
\* connection and writes no handshake or frame byte.
C16_ConfigErrorFailFast ==
  (send_task.pc # "idle" /\ send_task.total_frame_size - header_size <= 0) =>
    /\ send_task.pc = "done"
    /\ send_task.outcome = "configuration_error"
    /\ ~send_task.connected
    /\ send_task.wire = <<>>
    /\ send_task.frames = <<>>

\* C16 witness: a send task on a file of two bytes ended on frame size 10
C16_Witness ==
  /\ send_task.outcome = "configuration_error"
  /\ send_task.total_frame_size = header_size
  /\ Len(send_task.file_bytes) = 2

\* C17: a transfer with a header field above 65535 is rejected before any
\* header is encoded: no frame is written for it, no connection is opened
\* and nothing is sent; every header that is written holds the true index,
\* row, column and frame count in its two-byte fields.
C17_HeaderFieldRange ==
  LET P == send_task.total_frame_size - header_size
      N == CeilDiv(Len(send_task.file_bytes), P)
  IN  SplitterRan =>
        /\ N > 65535 =>
              /\ send_task.pc = "done"
              /\ send_task.frames = <<>>
              /\ ~send_task.connected
              /\ send_task.wire = <<>>
        /\ \A k \in 1..Len(send_task.frames) :
              /\ \A b \in 1..header_size : send_task.frames[k][b] \in 0..255
              /\ ParseFrame(send_task.frames[k]).frame_idx = k - 1
              /\ ParseFrame(send_task.frames[k]).row_idx
                   = (k - 1) \div send_task.cols
              /\ ParseFrame(send_task.frames[k]).col_idx
                   = (k - 1) % send_task.cols
              /\ ParseFrame(send_task.frames[k]).current_total_frames = N

\* C17 witness: a send task on a file of more than 65535 chunks has ended
C17_Witness ==
  /\ send_task.outcome = "overflow_error"
  /\ send_task.total_frames > 65535
  /\ send_task.pc = "done"

\* C18 as stated: the frame size written in the handshake equals the byte
\* length of every frame written on the connection, also when the data size
\* is changed while the send task runs.
C18_FrameSizeFixed ==
  HandshakeSent =>
    /\ send_task.size_sent = send_task.total_frame_size
    /\ \A k \in 1..send_task.i : Len(send_task.frames[k]) = send_task.size_sent

\* C19 as stated: once stop_server has set the stop flag, no further inbound
\* connection is accepted and no new handler is started until start_server
\* is called again.
C19_StopStopsAccepting ==
  [][~server.server_running =>
       /\ server'.accepted = server.accepted
       /\ conn_seq' = conn_seq]_vars

\* a handler thread that has been started and has not ended
Running(s) == sess[s].pc \notin {"idle", "done"}

\* C20 as stated: when stop_server has returned, no handler thread is still
\* running.
C20_CleanShutdown ==
  server.stopped => \A s \in Sessions : ~Running(s)

\* the entry a handler appends, and the entries of its connection in the list
Entry(s) == [transmitter |-> sess[s].transmitter_name, conn |-> sess[s].conn]

Entries(s) ==
  {k \in DOMAIN all_received_images_metadata :
     all_received_images_metadata[k].conn = sess[s].conn}

\* cv2.imdecode returned an image for session s
Decoded(s) == sess[s].nparr # NoImage

\* the list changes only by one entry put at its end, by a session that
\* decoded its image and has no entry yet
AppendOnlyStep ==
  \/ all_received_images_metadata' = all_received_images_metadata
  \/ \E s \in Sessions :
        /\ Decoded(s)
        /\ Entries(s) = {}
        /\ all_received_images_metadata'
             = Append(all_received_images_metadata, Entry(s))

\* C21 as stated: the completed-transfer list only grows at its end, entries
\* are never removed, changed or reordered, and every session that decoded
\* its image appends exactly one entry, no other session any.
C21_OneEntryPerDecoded ==
  /\ [][AppendOnlyStep]_vars
  /\ [](\A s \in Sessions :
          sess[s].pc = "done" =>
            Cardinality(Entries(s)) = IF Decoded(s) THEN 1 ELSE 0)

\* C21 amended: the same, with exactly one entry for every session that
\* decoded its image and whose cv2.imwrite call raised nothing, and no entry
\* for any other session.
C21_OneEntryPerSaved ==
  /\ [][AppendOnlyStep]_vars
  /\ [](\A s \in Sessions :
          sess[s].pc = "done" =>
            Cardinality(Entries(s))
              = IF Decoded(s) /\ sess[s].outcome # "write_failed" THEN 1 ELSE 0)

\* C21 witness: both sessions are over with one entry each; the connection
\* accepted second completed first and stands first in the list
C21_Witness ==
  /\ Len(all_received_images_metadata) = 2
  /\ all_received_images_metadata[1].conn > all_received_images_metadata[2].conn
  /\ \A s \in ConcSessions : sess[s].pc = "done"

\* C22 as stated: with concurrent sessions, a session that has left its
\* receive loop reconstructs if and only if the number of distinct positions
\* in its own buffer equals the total it recorded from its own first frame.
C22_CompletionUsesOwnState ==
  \A s \in Sessions :
    PastLoop(s) =>
      (sess[s].reconstructed
         <=> Cardinality(DOMAIN sess[s].frame_grid)
               = sess[s].total_frames_expected)

\* the header fields and the payload of a frame, by their byte offsets
FieldRow(f) == FromBytes(SubSeq(f, 3, 4))
FieldCol(f) == FromBytes(SubSeq(f, 5, 6))
FieldTotal(f) == FromBytes(SubSeq(f, 7, 8))
Payload(f) == SubSeq(f, header_size + 1, Len(f))

\* handler s reads frame f in this step
Reads(s, f) ==
  /\ sess[s].pc = "recv_frame"
  /\ sess'[s].pc = "check"
  /\ <<FieldRow(f), FieldCol(f)>> \in DOMAIN sess'[s].frame_grid
  /\ sess'[s] = AfterFrame(sess[s], f)

\* C23: expected_total_frames is set from the total_frames field of the first
\* frame and never changes afterwards; a frame with another total leaves
\* every stored chunk in place, and its own chunk is stored at its (row, col).
C23_ExpectedWriteOnce ==
  [][\A s \in Sessions :
       /\ (sess[s].total_frames_expected # -1 /\ sess'[s].conn = sess[s].conn)
            => sess'[s].total_frames_expected = sess[s].total_frames_expected
       /\ \A f \in TotalsFrames(s) :
            Reads(s, f) =>
              /\ sess[s].total_frames_expected = -1
                   => sess'[s].total_frames_expected = FieldTotal(f)
              /\ DOMAIN sess'[s].frame_grid
                   = DOMAIN sess[s].frame_grid \cup {<<FieldRow(f), FieldCol(f)>>}
              /\ sess'[s].frame_grid[<<FieldRow(f), FieldCol(f)>>] = Payload(f)
              /\ \A p \in DOMAIN sess[s].frame_grid :
                   p # <<FieldRow(f), FieldCol(f)>>
                     => sess'[s].frame_grid[p] = sess[s].frame_grid[p]]_vars

\* C23 witness: the first frame set the expected total to the transmitter's
\* count; a later frame with another total was stored next to it
C23_Witness ==
  \E s \in Sessions :
    /\ sess[s].foreign
    /\ sess[s].total_frames_expected = Len(sess[s].frame_files)
    /\ Cardinality(DOMAIN sess[s].frame_grid) >= 2
    /\ sess[s].ndup = 0

\* C24 as stated: a session whose stream ends (or delivers only part of a
\* frame) before its count of stored positions reaches the expected total
\* ends as an incomplete transfer: no reconstruction, no decoded image, no
\* metadata entry, no feed slot written by it; only whole frames are ever
\* stored in the buffer.
C24_IncompleteAborts ==
  \A s \in Sessions :
    /\ \A p \in DOMAIN sess[s].frame_grid :
         Len(sess[s].frame_grid[p]) = Max(sess[s].data_size - header_size, 0)
    /\ (/\ sess[s].eof
        /\ sess[s].pc \in {"close", "done"}
        /\ Cardinality(DOMAIN sess[s].frame_grid)
             # sess[s].total_frames_expected)
         => /\ sess[s].outcome = "incomplete"
            /\ ~sess[s].reconstructed
            /\ sess[s].combined_bytes = <<>>
            /\ ~Decoded(s)
            /\ Entries(s) = {}
            /\ \A i \in SlotIdx :
                 live_feed_assignments[i].last_image_data.conn # sess[s].conn

\* the highest row and column among the stored positions
TopRow(grid) == CHOOSE r \in {p[1] : p \in DOMAIN grid} :
                  \A p \in DOMAIN grid : p[1] <= r
TopCol(grid) == CHOOSE c \in {p[2] : p \in DOMAIN grid} :
                  \A p \in DOMAIN grid : p[2] <= c

\* the positions of the rectangle 0..R x 0..C, row by row
RowMajor(R, C) ==
  [k \in 1..((R + 1) * (C + 1)) |-> <<(k - 1) \div (C + 1), (k - 1) % (C + 1)>>]

\* the chunks of the rectangle in that order, empty where nothing is stored
RECURSIVE ConcatAt(_, _)
ConcatAt(grid, positions) ==
  IF positions = <<>> THEN <<>>
  ELSE (IF Head(positions) \in DOMAIN grid THEN grid[Head(positions)] ELSE <<>>)
         \o ConcatAt(grid, Tail(positions))

\* C25: on completion the reconstructed bytes are the chunks stored at
\* (row, col) for row = 0..max_row and, within a row, col = 0..max_col, with
\* nothing for a position never received, and one integrity warning is
\* recorded for each such position.
C25_ReconstructionOrder ==
  \A s \in Sessions :
    sess[s].reconstructed =>
      LET grid == sess[s].frame_grid
          rect == RowMajor(TopRow(grid), TopCol(grid))
      IN  /\ sess[s].combined_bytes = ConcatAt(grid, rect)
          /\ sess[s].warnings
               = Cardinality({k \in DOMAIN rect : rect[k] \notin DOMAIN grid})

\* C25 witness: a completed session whose stored positions leave two holes
\* in their rectangle and whose chunks differ
C25_Witness ==
  \E s \in Sessions :
    /\ sess[s].reconstructed
    /\ sess[s].warnings = 2
    /\ DOMAIN sess[s].frame_grid = {<<0, 1>>, <<1, 0>>}
    /\ sess[s].combined_bytes = <<0, 1>>

\* what the completion decision and the reconstructed bytes are computed
\* from, after handler s has read frame f
Placed(s, f) ==
  LET after == AfterFrame(sess[s], f)
      count == ReceivedCount(after.frame_grid, after.nread)
  IN  [frame_grid |-> after.frame_grid,
       max_row |-> after.max_row,
       max_col |-> after.max_col,
       total_frames_expected |-> after.total_frames_expected,
       count |-> count,
       complete |-> CompleteTest(after.total_frames_expected, count),
       combined_bytes |->
         Reconstruct(after.frame_grid, after.max_row, after.max_col)]

\* C26: wherever a handler waits for a frame, reading a frame or reading one
\* that differs from it only in the frame index and the reserved bytes
\* leaves the same buffer, max_row, max_col, expected total and count, hence
\* the same completion decision and the same reconstructed bytes.
C26_PlacementByRowCol ==
  \A s \in Sessions :
    sess[s].pc = "recv_frame" =>
      \A f \in Range(Produced(s)) :
        \A i \in PeerIndexes : \A resv \in PeerReserved :
          /\ FieldRow(Reindexed(f, i, resv)) = FieldRow(f)
          /\ FieldCol(Reindexed(f, i, resv)) = FieldCol(f)
          /\ FieldTotal(Reindexed(f, i, resv)) = FieldTotal(f)
          /\ Payload(Reindexed(f, i, resv)) = Payload(f)
          /\ Placed(s, Reindexed(f, i, resv)) = Placed(s, f)

\* C26 witness: a session fed the produced frames under other frame indexes
\* and reserved bytes, in another order, reconstructed the padded file
C26_Witness ==
  \E s \in Sessions :
    /\ sess[s].reconstructed
    /\ sess[s].foreign
    /\ sess[s].ooo
    /\ sess[s].ndup = 0
    /\ Len(sess[s].frame_files) >= 3
    /\ sess[s].combined_bytes = sess[s].tx.file_bytes \o Padding(sess[s].tx)

\* C27 as stated: a session whose reconstructed bytes the codec cannot
\* decode has saved those bytes to the diagnostic file, has no decoded image,
\* has appended and counted nothing and written no feed slot, and once its
\* handler has ended its connection is closed and deregistered.
C27_DecodeFailureContained ==
  \A s \in Sessions :
    sess[s].outcome = "decode_failed" =>
      /\ sess[s].debug_filepath
      /\ sess[s].reconstructed
      /\ ~Decoded(s)
      /\ Entries(s) = {}
      /\ received_image_count = 0
      /\ live_feed_assignments = EmptyFeedTable
      /\ sess[s].pc \in {"close", "done"}
      /\ sess[s].pc = "done" => sess[s].conn \notin server.active_connections

\* the frame index written in a frame
FieldIndex(f) == FromBytes(SubSeq(f, 1, 2))

\* what has gone out on the connection after the handshake
AfterHandshake ==
  SubSeq(send_task.wire, name_field + filename_field + size_field + 1,
         Len(send_task.wire))

\* a step of the send task after its handshake: nothing is written, or the
\* whole frame of the next index is written; an ended task writes nothing
SendOrderStep ==
  /\ send_task'.i \in {send_task.i, send_task.i + 1}
  /\ send_task'.i = send_task.i => send_task'.wire = send_task.wire
  /\ send_task'.i = send_task.i + 1 =>
       /\ send_task.pc = "send_frames"
       /\ FieldIndex(send_task.frames[send_task.i + 1]) = send_task.i
       /\ send_task'.wire = send_task.wire \o send_task.frames[send_task.i + 1]
  /\ send_task.pc = "done" =>
       /\ send_task'.pc = "done"
       /\ send_task'.wire = send_task.wire
       /\ send_task'.partial = send_task.partial

\* C28: after the handshake the frames go out in index order 0, 1, ..., each
\* once and whole; after a failed send or a missing frame file at index i
\* nothing of a later frame goes out, nothing is sent again, and the
\* connection is closed when the task has ended, on every path.
C28_SenderOrderAndAbort ==
  /\ [][HandshakeSent => SendOrderStep]_vars
  /\ [](HandshakeSent =>
          /\ AfterHandshake = Join(FramesSent)
          /\ send_task.i <= send_task.total_frames
          /\ send_task.outcome = "complete" =>
               send_task.i = send_task.total_frames
          /\ send_task.partial # <<>> =>
               /\ send_task.outcome = "error"
               /\ send_task.i < send_task.total_frames
               /\ Len(send_task.partial) < Len(send_task.frames[send_task.i + 1])
               /\ send_task.partial
                    = SubSeq(send_task.frames[send_task.i + 1], 1,
                             Len(send_task.partial)))
  /\ [](send_task.pc = "done" => ~send_task.connected)

\* C28 witness: a send failed inside the second of three frames or more,
\* part of that frame went out, the task has ended
C28_Witness ==
  /\ send_task.outcome = "error"
  /\ send_task.i = 1
  /\ send_task.total_frames >= 3
  /\ send_task.partial # <<>>
  /\ ~send_task.connected


\* slot i is the one slot whose label is the identity of session s
HoldsOnly(s, i) ==
  /\ Label(i) = sess[s].transmitter_name
  /\ Label(i) # NA
  /\ \A j \in SlotIdx : j # i => Label(j) # Label(i)

\* C29: under serialized arrivals, if identity X currently holds slot s then
\* the next arrival of X is assigned to the same slot s; an active transmitter
\* never moves to another slot while it still holds one.
C29_SlotStability ==
  [][\A i \in SlotIdx :
       (sess[1].pc = "feed_choose" /\ sess'[1].pc = "feed_name" /\ HoldsOnly(1, i))
         => sess'[1].assigned_to_feed_index = i]_vars


\* no accept-loop thread runs
AcceptLoopsExited ==
  \A a \in AccIds : server.acc[a].pc \in {"none", "exited"}

\* C30: after a stop request, and unless a start request follows, the accept
\* loop eventually exits, whether it was blocked in accept, handling an
\* accept timeout or handling an accept error.
C30_AcceptLoopReactsToStop ==
  [](~server.server_running => <>(server.server_running \/ AcceptLoopsExited))

\* stop_server has returned, shutdown() of the listening socket had raised so
\* the socket still listens, and the accept loop has left through its test
\* after an accept timeout
C30_Witness ==
  /\ server.stopped
  /\ ~server.server_running
  /\ server.server_socket = "listening"
  /\ server.acc[1].pc = "exited"


\* C31 as stated: every handling unit eventually terminates and closes its
\* connection, given that each blocking read eventually returns data, reports
\* the close of the connection or meets the idle-read timeout.
C31_HandlersTerminate ==
  \A s \in LiveSessions : [](Running(s) => <>~Running(s))


\* handler s is inside its success branch (Receiver.py:291-306)
InSuccessBranch(s) ==
  sess[s].pc \in {"write", "count_read", "count_write", "append",
                  "feed_choose", "feed_name", "feed_image"}

\* C32 as stated: whenever no handler is inside its success branch,
\* received_image_count equals the number of entries of
\* all_received_images_metadata, also when sessions succeed concurrently.
C32_CountMatchesHistory ==
  (\A s \in Sessions : ~InSuccessBranch(s))
    => received_image_count = Len(all_received_images_metadata)


\* the accept loop has started the handler of session s and has not yet
\* appended it to active_connections (between Receiver.py:129 and 130)
RegistrationPending(s) ==
  \E a \in AccIds : /\ server.acc[a].pc = "register"
                    /\ server.acc[a].handler = sess[s].conn

\* C33 as stated: once a handler has finished and the accept loop has executed
\* its registration step for it, the handler is not listed in
\* active_connections.
C33_NoStaleEntries ==
  \A s \in Sessions :
    (sess[s].pc = "done" /\ ~RegistrationPending(s))
      => sess[s].conn \notin server.active_connections


\* the threads that execute _accept_connections_task
AcceptLoops == {a \in AccIds : server.acc[a].pc \notin {"none", "exited"}}

\* C34 as stated: for any sequence of start_server and stop_server calls, at
\* most one thread is executing the accept loop at any time.
C34_SingleAcceptLoop == Cardinality(AcceptLoops) <= 1


\* C35 as stated: a session that received every frame the splitter produced
\* for an image, on any grid, records no missing-chunk warning during
\* reconstruction (and so substitutes no empty placeholder).
C35_NoSpuriousWarnings ==
  \A s \in Sessions :
    (FedAll(s) /\ sess[s].reconstructed) => sess[s].warnings = 0


\* no call of _update_live_feed_display is under way
BetweenArrivals ==
  \A s \in Sessions : sess[s].pc \notin {"feed_name", "feed_image"}

\* C36 as stated: when the calls of _update_live_feed_display run one at a
\* time, then after any finite sequence of arrivals from the empty table no
\* identity labels two slots.
C36_SerialUniqueness ==
  BetweenArrivals =>
    \A i \in SlotIdx : \A j \in SlotIdx :
      (i < j /\ Label(i) # NA) => Label(j) # Label(i)


\* the sender slot i was last given to: the sender of the image it shows
\* ("None" while the slot has never been given to anyone)
Holder(i) == live_feed_assignments[i].last_image_data.from

\* slot i goes from one sender to a different sender in this step
TakenOver(i) ==
  /\ Holder(i) # "None"
  /\ Holder(i)' # Holder(i)

\* C37 as stated: under serialized arrivals a slot with index >= 1 never
\* changes from one assigned identity to a different identity; slot 0 is
\* overwritten by a different identity only when every slot is assigned and
\* the arriving identity holds none.
C37_OnlySlotZeroTakenOver ==
  [][\A i \in SlotIdx :
       TakenOver(i) =>
         /\ i = 0
         /\ \A j \in SlotIdx : Holder(j) \notin {"None", Holder(0)'}]_vars


\* C38 as stated: once a slot has received an image from some sender, the
\* policy never again treats it as unassigned (Receiver.py:614, 633, 643 read
\* the label 'N/A' as unassigned), whatever name the sender announced.
C38_SlotsNeverReleased ==
  BetweenArrivals =>
    \A i \in SlotIdx : Holder(i) # "None" => Label(i) # NA


\* the capture threads that are taking or sending a photo
Capturing == {t \in CapIds : capture.loop[t] \in {"capture", "send"}}

\* C39 as stated: for any sequence of toggle_continuous_capture calls, at most
\* one continuous-capture loop thread is capturing and sending at any time.
C39_SingleCaptureLoop == Cardinality(Capturing) <= 1

====
